---- MODULE Spec2Model ----
(***************************************************************************)
(* Model of the ContentStorage vue-i18n plugin: live-mode detection, the   *)
(* process-wide reverse index (window.memoryMap) and the translation       *)
(* tracker that feeds it through vue-i18n's postTranslation hook.          *)
(*                                                                         *)
(* Strings that the code splits or joins on '.' (translation keys, object  *)
(* property names) are sequences of one-character strings; translated      *)
(* texts are plain strings.  A JavaScript Map is a sequence of entries in  *)
(* insertion order.                                                        *)
(***************************************************************************)
EXTENDS Integers, Sequences, FiniteSets, TLC

\* ------------------------------------------------------------------ bounds
MaxClock == 2
MaxN == 1
MaxFetch == 2
MaxPending == 2
MaxResets == 1

\* ------------------------------------------------------------ value universe
Trackers == {"T1", "T2"}
Hosts == {"H1", "H2"}
Locales == {"en", "fr"}

Str(s) == [t |-> "str", s |-> s, c |-> <<>>]
Obj(c) == [t |-> "obj", s |-> "", c |-> c]
Num == [t |-> "num", s |-> "", c |-> <<>>]
Arr == [t |-> "arr", s |-> "", c |-> <<>>]
Undefined == [t |-> "undef", s |-> "", c |-> <<>>]
Null == [t |-> "null", s |-> "", c |-> <<>>]

\* a property name or path is the sequence of the characters of the string
Chars(s) == [i \in 1..Len(s) |-> SubSeq(s, i, i)]

\* String(n) for a natural number n: its decimal digits
Digit(n) == <<"0", "1", "2", "3", "4", "5", "6", "7", "8", "9">>[n + 1]
RECURSIVE DecimalString(_)
DecimalString(n) ==
  IF n < 10 THEN Digit(n) ELSE DecimalString(n \div 10) \o Digit(n % 10)

\* an array: like an object, the sequence of its <<property name, node>>
\* pairs, the names being the indices "0", "1", ...
ArrOf(items) == [t |-> "arr", s |-> "", c |-> [i \in 1..Len(items) |-> <<Chars(DecimalString(i - 1)), items[i]>>]]
\* the number n, a built-in function, the accessor property __proto__, a
\* built-in prototype object
NumOf(n) == [t |-> "num", s |-> DecimalString(n), c |-> <<>>]
Fn(name) == [t |-> "fn", s |-> name, c |-> <<>>]
ProtoAccessor == [t |-> "accessor", s |-> "__proto__", c |-> <<>>]
ObjectPrototype == [t |-> "proto", s |-> "Object", c |-> <<>>]
ArrayPrototype == [t |-> "proto", s |-> "Array", c |-> <<>>]

\* the names of the own properties of Object.prototype and of Array.prototype
\* that are strings (a path segment is a string, so it never names a
\* Symbol-keyed property)
ObjectPrototypeNames ==
  << "constructor", "__defineGetter__", "__defineSetter__", "hasOwnProperty",
     "__lookupGetter__", "__lookupSetter__", "isPrototypeOf", "propertyIsEnumerable",
     "toString", "valueOf", "__proto__", "toLocaleString" >>
ArrayPrototypeNames ==
  << "length", "constructor", "at", "concat", "copyWithin", "fill", "find", "findIndex",
     "findLast", "findLastIndex", "lastIndexOf", "pop", "push", "reverse", "shift",
     "unshift", "slice", "sort", "splice", "includes", "indexOf", "join", "keys",
     "entries", "values", "forEach", "filter", "flat", "flatMap", "map", "every", "some",
     "reduce", "reduceRight", "toLocaleString", "toString", "toReversed", "toSorted",
     "toSpliced", "with" >>
LengthKey == Chars("length")

NoVars == [present |-> FALSE, m |-> {}]
EmptyVars == [present |-> TRUE, m |-> {}]
JohnVars == [present |-> TRUE, m |-> {<<"name", "John">>}]
JaneVars == [present |-> TRUE, m |-> {<<"name", "Jane">>}]

\* message trees (an object is the sequence of its <<property name, node>>
\* pairs in property order)
TreeEn ==
  Obj(<< <<<<"n">>, Obj(<< <<<<"t">>, Str("Hello {name}!")>>, <<<<"c">>, Num>> >>)>>,
         <<<<"e">>, Str("")>> >>)
TreeFr == Obj(<< <<<<"n">>, Obj(<< <<<<"t">>, Str("Bonjour {name}!")>> >>)>> >>)
TreeEmpty == Obj(<<>>)

NoMessages == [present |-> FALSE, tree |-> Undefined]
Messages(tree) == [present |-> TRUE, tree |-> tree]

\* the message store of an instance: locale -> message tree
FullMessages == [l \in Locales |-> IF l = "en" THEN Messages(TreeEn) ELSE Messages(TreeFr)]
SparseMessages == [l \in Locales |-> IF l = "en" THEN Messages(TreeEmpty) ELSE NoMessages]

\* shapes of the object handed to attach():
\*   composer  global Composer: locale ref, getLocaleMessage,
\*             getPostTranslationHandler / setPostTranslationHandler
\*   legacy    global VueI18n: locale string, messages object, postTranslation property
\*   throwing  a Composer whose getLocaleMessage throws
\*   noglobal  no global instance
HostShapes == {"composer", "legacy", "throwing", "noglobal"}

\* post-translation handlers an application may have set on its instance
HandlerKinds == {"none", "uppercase"}

\* keys and resolved values the host passes to its post-translation handler
CallKeys == { <<"n", ".", "t">>, <<"e">> }
CallValues == { Str("Hello John!"), Arr }

\* ------------------------------------------------------------------- state
VARIABLES
  env,         \* execution context: browser?, embedded?, marker in the URL?
  now,         \* value Date.now() returns
  memoryMap,   \* window.memoryMap: [ref, entries]; ref = 0 is "not set"
  curLang,     \* window.currentLanguageCode ("undef" when not set)
  refreshFn,   \* window.__contentstorageRefresh ("undef" or the tracker that set it)
  liveEditorScript, \* liveEditorReadyPromise and the script element of the load
  trackers,    \* ContentstorageTracker instances
  hosts,       \* vue-i18n instances
  hist,        \* <<value, key>> pairs tracked since the value's entry was created
  i18n,        \* the instance createContentstorageI18n returned, with its contentStorage
  loader,      \* the ContentstorageLoader: options, cache, requests issued
  pending,     \* requests in flight, each with the call that awaits it
  last         \* the last call: operation, arguments, return value, events, and
               \* whether it came right after a refresh

cdnVars == <<i18n, loader, pending>>

vars == <<env, now, memoryMap, curLang, refreshFn, liveEditorScript, trackers, hosts, hist,
          i18n, loader, pending, last>>

\* ------------------------------------------------------------ utils.ts

\* isBrowser(): window and document exist
isBrowser == env.browser

\* detectLiveEditorMode(liveEditorParam, forceLiveMode)
DetectLiveEditorModeEither(e, forceLiveMode) ==
  IF forceLiveMode THEN TRUE
  ELSE IF ~e.browser THEN FALSE
  ELSE IF e.topThrows THEN FALSE
  ELSE e.inIframe \/ e.hasMarker
detectLiveEditorMode(e, forceLiveMode) ==
  IF forceLiveMode THEN TRUE
  ELSE IF ~e.browser THEN FALSE
  ELSE IF e.topThrows THEN FALSE
  ELSE e.inIframe /\ e.hasMarker

\* initializeMemoryMap(): allocate the Map only when the slot is not set
InitializeMemoryMapAlways(mm) ==
  IF ~isBrowser THEN mm
  ELSE [ref |-> (mm.ref % 2) + 1, entries |-> <<>>]
initializeMemoryMap(mm) ==
  IF ~isBrowser THEN mm
  ELSE IF mm.ref = 0 THEN [ref |-> 1, entries |-> <<>>]
  ELSE mm

\* getMemoryMap(): the Map, or null (ref = 0)
HasMapAlways(mm) == TRUE
HasMap(mm) == isBrowser /\ mm.ref # 0

\* setCurrentLanguageCode(languageCode)
SetCurrentLanguageCodeOnce(lang, languageCode) ==
  IF isBrowser /\ lang = "undef" THEN languageCode ELSE lang
setCurrentLanguageCode(lang, languageCode) ==
  IF isBrowser THEN languageCode ELSE lang

\* normalizeKey(key)
normalizeKey(key) == key

\* position of the entry stored under a value, 0 when there is none
IndexOfValue(entries, value) ==
  IF \E i \in 1..Len(entries) : entries[i].value = value
  THEN CHOOSE i \in 1..Len(entries) : entries[i].value = value
  ELSE 0

NonEmptyVars(v) == v.present /\ v.m # {}

\* idSet: the key set of the existing entry (or a new set) with the key added
IdSetReplacing(existingIds, translationKey) == {normalizeKey(translationKey)}
idSet(existingIds, translationKey) == existingIds \cup {normalizeKey(translationKey)}

\* mergedVariables: the call's variables when non-empty, else the entry's
MergedVariablesNewOnly(variables, existingVariables) == variables
mergedVariables(variables, existingVariables) ==
  IF NonEmptyVars(variables) THEN variables ELSE existingVariables

\* trackTranslation(translationValue, translationKey, namespace, language,
\*                  debug, variables) with Date.now() = ts
trackTranslation(mm, translationValue, translationKey, namespace, language, ts, variables) ==
  IF ~HasMap(mm) THEN mm
  ELSE
    LET i == IndexOfValue(mm.entries, translationValue)
        ids == idSet(IF i # 0 THEN mm.entries[i].ids ELSE {}, translationKey)
        merged == mergedVariables(variables, IF i # 0 THEN mm.entries[i].vars ELSE NoVars)
        entry == [ value |-> translationValue,
                   ids |-> ids,
                   type |-> "text",
                   vars |-> IF NonEmptyVars(merged) THEN merged ELSE NoVars,
                   ns |-> namespace,
                   lang |-> language,
                   ts |-> ts ]
    IN [mm EXCEPT !.entries =
          IF i # 0 THEN [mm.entries EXCEPT ![i] = entry]
          ELSE Append(mm.entries, entry)]

\* Array.prototype.sort with (a, b) => a.timestamp - b.timestamp: stable,
\* ascending; InsertByTs puts e behind every element that is not newer
RECURSIVE InsertByTsUnstable(_, _)
InsertByTsUnstable(sorted, e) ==
  IF sorted = <<>> THEN <<e>>
  ELSE IF sorted[Len(sorted)].ts < e.ts THEN Append(sorted, e)
  ELSE Append(InsertByTsUnstable(SubSeq(sorted, 1, Len(sorted) - 1), e), sorted[Len(sorted)])

RECURSIVE InsertByTs(_, _)
InsertByTs(sorted, e) ==
  IF sorted = <<>> THEN <<e>>
  ELSE IF sorted[Len(sorted)].ts <= e.ts THEN Append(sorted, e)
  ELSE Append(InsertByTs(SubSeq(sorted, 1, Len(sorted) - 1), e), sorted[Len(sorted)])

RECURSIVE SortByTs(_)
SortByTs(entries) ==
  IF entries = <<>> THEN <<>>
  ELSE InsertByTs(SortByTs(SubSeq(entries, 1, Len(entries) - 1)), entries[Len(entries)])

\* cleanupMemoryMap(maxSize)
cleanupMemoryMap(mm, maxSize) ==
  IF ~HasMap(mm) \/ Len(mm.entries) <= maxSize THEN mm
  ELSE
    LET sorted == SortByTs(mm.entries)
        toRemove == Len(mm.entries) - maxSize
        removed == { sorted[i].value : i \in 1..toRemove }
    IN [mm EXCEPT !.entries = SelectSeq(mm.entries, LAMBDA e : e.value \notin removed)]

\* clearMemoryMap(): remove every entry, keep the Map object
clearMemoryMap(mm) ==
  IF ~HasMap(mm) THEN mm ELSE [mm EXCEPT !.entries = <<>>]

\* fullKey = prefix ? `${prefix}.${key}` : key
FullKey(prefix, key) == IF prefix # <<>> THEN prefix \o <<".">> \o key ELSE key

\* flattenTranslations(obj, prefix): [key, value] pairs of the string leaves
RECURSIVE flattenProps(_, _, _)
flattenProps(props, i, prefix) ==
  IF i > Len(props) THEN <<>>
  ELSE
    LET key == props[i][1]
        value == props[i][2]
        fullKey == FullKey(prefix, key)
        here == IF value.t = "str" THEN << <<fullKey, value.s>> >>
                ELSE IF value.t = "obj" THEN flattenProps(value.c, 1, fullKey)
                ELSE <<>>
    IN here \o flattenProps(props, i + 1, prefix)

\* the guard `!obj || typeof obj !== 'object'` lets objects and arrays through;
\* for-in with hasOwnProperty walks the own enumerable properties, which for an
\* array are its indices
FlattenTranslationsOfAnyInput(obj) ==
  IF obj.t = "str" THEN << <<<<>>, obj.s>> >>
  ELSE IF obj.t \notin {"obj", "arr"} THEN <<>> ELSE flattenProps(obj.c, 1, <<>>)
flattenTranslations(obj) ==
  IF obj.t \notin {"obj", "arr"} THEN <<>> ELSE flattenProps(obj.c, 1, <<>>)

\* path.split('.')
RECURSIVE SplitDots(_, _)
SplitDots(path, cur) ==
  IF path = <<>> THEN <<cur>>
  ELSE IF Head(path) = "." THEN <<cur>> \o SplitDots(Tail(path), <<>>)
  ELSE SplitDots(Tail(path), Append(cur, Head(path)))

\* typeof current === 'object' for a value that is not null
IsObjectValue(current) == current.t \in {"obj", "arr", "proto"}

\* the own properties of an object value: an array has its elements and
\* length, the built-in prototypes have their methods
ObjectPrototypeProps ==
  [i \in 1..Len(ObjectPrototypeNames) |->
     LET name == ObjectPrototypeNames[i]
     IN <<Chars(name),
          CASE name = "constructor" -> Fn("Object")
            [] name = "__proto__" -> ProtoAccessor
            [] OTHER -> Fn("Object.prototype." \o name)>>]
ArrayPrototypeProps ==
  [i \in 1..Len(ArrayPrototypeNames) |->
     LET name == ArrayPrototypeNames[i]
     IN <<Chars(name),
          CASE name = "length" -> NumOf(0)
            [] name = "constructor" -> Fn("Array")
            [] OTHER -> Fn("Array.prototype." \o name)>>]
OwnProps(current) ==
  CASE current.t = "obj" -> current.c
    [] current.t = "arr" -> Append(current.c, <<LengthKey, NumOf(Len(current.c))>>)
    [] current = ObjectPrototype -> ObjectPrototypeProps
    [] current = ArrayPrototype -> ArrayPrototypeProps
    [] OTHER -> <<>>
HasOwn(current, key) == \E i \in 1..Len(OwnProps(current)) : OwnProps(current)[i][1] = key
OwnValue(current, key) ==
  OwnProps(current)[CHOOSE i \in 1..Len(OwnProps(current)) : OwnProps(current)[i][1] = key][2]

\* the prototype of an object value (null for Object.prototype)
PrototypeOf(current) ==
  CASE current.t = "obj" -> ObjectPrototype
    [] current.t = "arr" -> ArrayPrototype
    [] current = ArrayPrototype -> ObjectPrototype
    [] OTHER -> Null

\* key in current, and current[key]: own properties first, then the prototype
\* chain; __proto__ is an accessor of Object.prototype, which every object
\* value inherits and which answers with the prototype of the receiver
RECURSIVE HasProperty(_, _)
HasProperty(current, key) ==
  \/ HasOwn(current, key)
  \/ PrototypeOf(current) # Null /\ HasProperty(PrototypeOf(current), key)
RECURSIVE LookupValue(_, _, _)
LookupValue(receiver, holder, key) ==
  IF ~HasOwn(holder, key) THEN LookupValue(receiver, PrototypeOf(holder), key)
  ELSE IF OwnValue(holder, key) = ProtoAccessor THEN PrototypeOf(receiver)
  ELSE OwnValue(holder, key)
PropertyValue(current, key) == LookupValue(current, current, key)

\* current && typeof current === 'object' && key in current
\*   ? current[key] : undefined
GetProp(current, key) ==
  IF IsObjectValue(current) /\ HasProperty(current, key)
  THEN PropertyValue(current, key)
  ELSE Undefined

RECURSIVE ReducePath(_, _, _)
ReducePath(current, segs, i) ==
  IF i > Len(segs) THEN current
  ELSE ReducePath(GetProp(current, segs[i]), segs, i + 1)

\* getNestedValue(obj, path)
GetNestedValueTopLevelOnly(obj, path) ==
  IF ~IsObjectValue(obj) THEN Undefined ELSE GetProp(obj, path)
getNestedValue(obj, path) ==
  IF ~IsObjectValue(obj) THEN Undefined
  ELSE ReducePath(obj, SplitDots(path, <<>>), 1)


\* ------------------------------------------------------------ tracker.ts

Upper(s) ==
  CASE s = "Hello John!" -> "HELLO JOHN!"
    [] s = "Welcome" -> "WELCOME"
    [] OTHER -> s

\* the application's own post-translation handler applied to a value
ApplyHandler(kind, v) ==
  IF kind = "uppercase" /\ v.t = "str" THEN Str(Upper(v.s)) ELSE v

\* getGlobalInstance(i18n): i18n.global, or null
GetGlobalInstanceAlways(host) == TRUE
getGlobalInstance(host) == host.shape # "noglobal"

\* getLocale(instance): the active locale, or "null"
GetLocaleIgnoringSwitch(host) ==
  IF host.shape \in {"composer", "legacy", "throwing"} THEN "en" ELSE "null"
getLocale(host) ==
  IF host.shape \in {"composer", "legacy", "throwing"} THEN host.locale ELSE "null"

GetLocaleMessagesUncaught(host, locale) ==
  IF host.shape \in {"composer", "legacy"} THEN
    [threw |-> FALSE, present |-> host.msgs[locale].present, tree |-> host.msgs[locale].tree]
  ELSE [threw |-> host.shape = "throwing", present |-> FALSE, tree |-> Undefined]

\* getLocaleMessages(instance, locale): the message tree or null; an
\* exception of the instance is caught
getLocaleMessages(host, locale) ==
  IF host.shape = "composer" THEN
    [threw |-> FALSE, present |-> host.msgs[locale].present, tree |-> host.msgs[locale].tree]
  ELSE IF host.shape = "legacy" THEN
    [threw |-> FALSE, present |-> host.msgs[locale].present, tree |-> host.msgs[locale].tree]
  ELSE [threw |-> FALSE, present |-> FALSE, tree |-> Undefined]

\* the getters inLiveMode and isAttached, read by the guards of the methods
InLiveModeAlways(tr) == TRUE
inLiveMode(tr) == tr.live
IsAttachedNever(tr) == FALSE
isAttached(tr) == tr.attached

\* if (this.options.maxMemoryMapSize): the option is tested for truthiness
ShouldCleanup(tr) == tr.max # 0

\* what a wrapper returns: the result of the handler it found at attach, or the
\* resolved value when it found none
HandlerReturnResolved(existingHandler, translated) == translated
HandlerReturn(existingHandler, translated) ==
  IF existingHandler # "none" THEN ApplyHandler(existingHandler, translated) ELSE translated

\* does the instance offer getPostTranslationHandler / setPostTranslationHandler
HasHandlerMethods(host) == host.shape \in {"composer", "throwing"}

\* one trackTranslation call threaded through the state of a running handler
TrackStepKnownValuesOnly(st, value, key, language, ts, variables) ==
  IF IndexOfValue(st.mm.entries, value) = 0 THEN st
  ELSE [st EXCEPT
          !.mm = trackTranslation(st.mm, value, key, "undef", language, ts, variables),
          !.hist = IF HasMap(st.mm) THEN st.hist \cup {<<value, key>>} ELSE st.hist]
TrackStep(st, value, key, language, ts, variables) ==
  [st EXCEPT
     !.mm = trackTranslation(st.mm, value, key, "undef", language, ts, variables),
     !.hist = IF HasMap(st.mm) THEN st.hist \cup {<<value, key>>} ELSE st.hist]

\* one cleanupMemoryMap call threaded through the state of a running handler
CleanStep(st, maxSize) ==
  LET mm2 == cleanupMemoryMap(st.mm, maxSize)
  IN [st EXCEPT
        !.mm = mm2,
        !.hist = { p \in st.hist : \E i \in 1..Len(mm2.entries) : mm2.entries[i].value = p[1] }]

\* the text to track: the raw template when the message tree holds a
\* non-empty string at the key, else the resolved value
TemplateOfResolved(templateValue, translated) == translated
TemplateOf(templateValue, translated) ==
  IF templateValue.t = "str" /\ templateValue.s # "" THEN templateValue.s ELSE translated

\* handleTranslation(translated, key, instance) of tracker tr
handleTranslation(st, tr, host, translated, key, ts) ==
  LET language == getLocale(host)
      st1 == IF language # "null"
             THEN [st EXCEPT !.lang = setCurrentLanguageCode(st.lang, language)]
             ELSE st
      messages == IF language # "null" THEN getLocaleMessages(host, language)
                  ELSE [threw |-> FALSE, present |-> FALSE, tree |-> Undefined]
      templateValue == IF messages.present THEN getNestedValue(messages.tree, key)
                       ELSE Undefined
      template == TemplateOf(templateValue, translated)
      st2 == TrackStep(st1, template, key,
                       IF language # "null" THEN language ELSE "undef", ts, NoVars)
      st3 == IF ShouldCleanup(tr) THEN CleanStep(st2, tr.max) ELSE st2
  IN IF messages.threw THEN [st1 EXCEPT !.threw = TRUE]
     ELSE [st3 EXCEPT !.ev = Append(st3.ev, [e |-> "track", t |-> tr.id, v |-> Str(template), k |-> key])]

\* the wrappers installed by setupPostTranslationHandler, outermost first,
\* each delegating to the handler it found when it was installed
RECURSIVE RunChain(_, _, _, _, _, _)
RunChain(st, host, i, translated, key, ts) ==
  IF st.threw THEN st
  ELSE IF i = 0 THEN
    IF host.base # "none"
    THEN [st EXCEPT !.ret = HandlerReturn(host.base, translated),
                    !.ev = Append(st.ev, [e |-> "existing", t |-> "-", v |-> translated, k |-> key])]
    ELSE [st EXCEPT !.ret = HandlerReturn(host.base, translated)]
  ELSE
    LET tr == trackers[host.chain[i]]
        st1 == IF translated.t = "str"
               THEN handleTranslation(st, tr, host, translated.s, key, ts)
               ELSE st
    IN RunChain(st1, host, i - 1, translated, key, ts)


\* exposeRefreshFunction(): window.__contentstorageRefresh is set when a window
\* exists
ExposeRefreshFunctionNever(rf, t) == rf
exposeRefreshFunction(rf, t) == IF isBrowser THEN t ELSE rf

\* liveEditorReadyPromise and what the load sequences have done so far:
\*   promise   "null" (slot not set), "pending", "true", "false", "rejected"
\*   pid       number of Promise objects created for the slot
\*   retries   the retries argument the load sequence of the promise in the
\*             slot runs with
\*   attempt   the attempt number of the last loadScript call of that sequence
\*   el        the script element of that attempt: "none", "loading", "loaded"
\*   timer     a setTimeout(() => loadScript(attempt + 1), delay) is pending
\*   inDocument, created   script elements in document.head / ever created
\*   failed    onerror events so far
\*   seqs      load sequences started
\*   settles   resolve calls that settled a promise
\*   resets    resetLiveEditorScript calls
\*   orphans   the load sequences that still run for a promise that
\*             resetLiveEditorScript has taken out of the slot, each with its
\*             promise, retries, attempt, el and timer
NoScript ==
  [promise |-> "null", pid |-> 0, retries |-> 0, attempt |-> 0, el |-> "none",
   timer |-> FALSE, inDocument |-> 0, created |-> 0, failed |-> 0, seqs |-> 0,
   settles |-> 0, resets |-> 0, orphans |-> <<>>]

\* the load sequence of the promise in the slot as a record of its own; a
\* sequence can still act while its element loads or its retry timer is pending
SeqOf(ls) ==
  [promise |-> ls.promise, retries |-> ls.retries, attempt |-> ls.attempt, el |-> ls.el,
   timer |-> ls.timer]
Running(q) == q.el = "loading" \/ q.timer

\* the closure of load sequence i, the record its callbacks work on: i = 0 is
\* the sequence of the promise in the slot, i > 0 the i-th orphan
SeqView(ls, i) ==
  IF i = 0 THEN ls
  ELSE [ls EXCEPT !.promise = ls.orphans[i].promise, !.retries = ls.orphans[i].retries,
                  !.attempt = ls.orphans[i].attempt, !.el = ls.orphans[i].el,
                  !.timer = ls.orphans[i].timer]

\* the state after a callback of sequence i has left its closure as r: the
\* slot and its sequence are untouched by an orphan, and an orphan that has
\* nothing left to do is gone
SeqMerge(ls, i, r) ==
  IF i = 0 THEN r
  ELSE [r EXCEPT !.promise = ls.promise, !.retries = ls.retries, !.attempt = ls.attempt,
                 !.el = ls.el, !.timer = ls.timer,
                 !.orphans = IF Running(SeqOf(r))
                             THEN [ls.orphans EXCEPT ![i] = SeqOf(r)]
                             ELSE SubSeq(ls.orphans, 1, i - 1)
                                    \o SubSeq(ls.orphans, i + 1, Len(ls.orphans))]

\* resolve(value): settles the promise when it is pending, else does nothing
resolve(ls, value) ==
  IF ls.promise = "pending"
  THEN [ls EXCEPT !.promise = value, !.settles = ls.settles + 1]
  ELSE ls

\* loadScript(attempt): create the script element and append it to the head
loadScript(ls, attempt) ==
  [ls EXCEPT !.attempt = attempt, !.el = "loading", !.timer = FALSE,
             !.created = ls.created + 1, !.inDocument = ls.inDocument + 1]

\* scriptElement.onload
scriptOnload(ls) == resolve([ls EXCEPT !.el = "loaded"], "true")

\* scriptElement.onerror: remove the element, then retry after the delay while
\* attempt < retries, else resolve(false)
ScriptOnerrorWithoutResolve(ls) ==
  LET removed == [ls EXCEPT !.el = "none", !.inDocument = ls.inDocument - 1,
                            !.failed = ls.failed + 1]
  IN IF ls.attempt < ls.retries THEN [removed EXCEPT !.timer = TRUE]
     ELSE removed
ScriptOnerrorKeepingElement(ls) ==
  LET kept == [ls EXCEPT !.el = "none", !.failed = ls.failed + 1]
  IN IF ls.attempt < ls.retries THEN [kept EXCEPT !.timer = TRUE]
     ELSE resolve(kept, "false")
ScriptOnerrorGivingUp(ls) ==
  LET removed == [ls EXCEPT !.el = "none", !.inDocument = ls.inDocument - 1,
                            !.failed = ls.failed + 1]
  IN resolve(removed, "false")
scriptOnerror(ls) ==
  LET removed == [ls EXCEPT !.el = "none", !.inDocument = ls.inDocument - 1,
                            !.failed = ls.failed + 1]
  IN IF ls.attempt < ls.retries THEN [removed EXCEPT !.timer = TRUE]
     ELSE resolve(removed, "false")

\* loadLiveEditorScript(retries, delay, debug, customScriptUrl): the first call
\* creates the promise and, in a browser, starts the load sequence; later calls
\* return the promise in the slot
LoadLiveEditorScriptAgainAfterFailure(ls, retries) ==
  IF ls.promise \in {"pending", "true"} THEN ls
  ELSE IF ~isBrowser
  THEN resolve([ls EXCEPT !.promise = "pending", !.pid = ls.pid + 1], "false")
  ELSE loadScript([ls EXCEPT !.promise = "pending", !.pid = ls.pid + 1,
                             !.retries = retries, !.seqs = ls.seqs + 1], 1)
loadLiveEditorScript(ls, retries) ==
  IF ls.promise # "null" THEN ls
  ELSE IF ~isBrowser
  THEN resolve([ls EXCEPT !.promise = "pending", !.pid = ls.pid + 1], "false")
  ELSE loadScript([ls EXCEPT !.promise = "pending", !.pid = ls.pid + 1,
                             !.retries = retries, !.seqs = ls.seqs + 1], 1)

\* resetLiveEditorScript(): liveEditorReadyPromise = null.  The promise that
\* was in the slot and its load sequence are not touched: an element that is
\* loading still fires its event, a retry timer still fires
resetLiveEditorScript(ls) ==
  [ls EXCEPT !.promise = "null", !.retries = 0, !.attempt = 0, !.el = "none",
             !.timer = FALSE, !.resets = ls.resets + 1,
             !.orphans = IF Running(SeqOf(ls)) THEN Append(ls.orphans, SeqOf(ls))
                         ELSE ls.orphans]

\* ------------------------------------------------------------ loader.ts

\* language.toUpperCase()
ToUpperCase(language) ==
  CASE language = "en" -> "EN"
    [] language = "fr" -> "FR"
    [] OTHER -> language

\* a value in a condition: null, undefined, the empty string and 0 are falsy
Truthy(value) ==
  CASE value.t \in {"undef", "null"} -> FALSE
    [] value.t = "str" -> value.s # ""
    [] value.t = "num" -> value.s # "0"
    [] OTHER -> TRUE

\* str.replace(pattern, replacement) with a string pattern: the first
\* occurrence is replaced (the replacement holds no '$')
Replace(str, pattern, replacement) ==
  LET starts == { i \in 1..(Len(str) - Len(pattern) + 1) :
                    SubSeq(str, i, i + Len(pattern) - 1) = pattern }
  IN IF starts = {} THEN str
     ELSE LET i == CHOOSE j \in starts : \A k \in starts : j <= k
          IN SubSeq(str, 1, i - 1) \o replacement
               \o SubSeq(str, i + Len(pattern), Len(str))

\* the option loadPath: left out, a string with the placeholder, a function
LoadPathTemplate == Str("/locales/{{lng}}.json")
LoadPathFunction == Fn("(lng) => 'https://example.test/fn/' + lng + '.json'")
CallLoadPath(loadPath, language) == "https://example.test/fn/" \o language \o ".json"

\* no loader created; a loader holds its options (is a contentKey set? the
\* loadPath), its cache (language -> translations) and the number of requests
\* it has issued
NoLoader ==
  [made |-> FALSE, contentKey |-> FALSE, loadPath |-> Undefined,
   cache |-> [l \in Locales |-> NoMessages], fetched |-> 0]

\* new ContentstorageLoader(options)
NewLoader(contentKey, loadPath) ==
  [NoLoader EXCEPT !.made = TRUE, !.contentKey = contentKey, !.loadPath = loadPath]

\* getLoadPath(language): what a loadPath function returns, a loadPath string
\* with the language filled in, else the default CDN URL, which needs the
\* contentKey ("KEY" stands for its value)
getLoadPath(ld, language) ==
  IF ld.loadPath.t = "fn"
  THEN [threw |-> FALSE, url |-> CallLoadPath(ld.loadPath, language)]
  ELSE IF ld.loadPath.t = "str"
  THEN [threw |-> FALSE, url |-> Replace(ld.loadPath.s, "{{lng}}", language)]
  ELSE IF ~ld.contentKey THEN [threw |-> TRUE, url |-> "-"]
  ELSE [threw |-> FALSE,
        url |-> "https://cdn.contentstorage.app/KEY/content/"
                  \o ToUpperCase(language) \o ".json"]

\* this.cache.get(language)
cacheGet(ld, language) ==
  IF ld.cache[language].present THEN ld.cache[language].tree ELSE Undefined

\* loadTranslations(language) up to its await: a cached value that is truthy
\* is returned, a missing contentKey throws, otherwise a request is issued
\* and the call waits for the response.  An entry of pending is a call that
\* waits: at stage "fetch" a loadTranslations that awaits the response to its
\* request, at stage "resume" a loadLanguage whose loadTranslations has
\* returned tree and whose own continuation has not run yet
LoadTranslationsUncached(ld, pend, language, caller) ==
  IF getLoadPath(ld, language).threw
  THEN [loader |-> ld, pending |-> pend, out |-> "contentKey is required", ret |-> Undefined]
  ELSE [loader |-> [ld EXCEPT !.fetched = ld.fetched + 1],
        pending |-> Append(pend, [language |-> language,
                                  url |-> getLoadPath(ld, language).url,
                                  caller |-> caller, stage |-> "fetch",
                                  tree |-> Undefined]),
        out |-> "requested", ret |-> Undefined]
loadTranslations(ld, pend, language, caller) ==
  IF Truthy(cacheGet(ld, language))
  THEN [loader |-> ld, pending |-> pend, out |-> "cached", ret |-> cacheGet(ld, language)]
  ELSE IF getLoadPath(ld, language).threw
  THEN [loader |-> ld, pending |-> pend, out |-> "contentKey is required", ret |-> Undefined]
  ELSE [loader |-> [ld EXCEPT !.fetched = ld.fetched + 1],
        pending |-> Append(pend, [language |-> language,
                                  url |-> getLoadPath(ld, language).url,
                                  caller |-> caller, stage |-> "fetch",
                                  tree |-> Undefined]),
        out |-> "requested", ret |-> Undefined]

\* this.cache.set(language, translations)
CacheSetNothing(ld, language, translations) == ld
cacheSet(ld, language, translations) ==
  [ld EXCEPT !.cache[language] = Messages(translations)]

\* clearCache(language): "" stands for a call without argument
ClearCacheEverything(ld, language) ==
  [ld EXCEPT !.cache = [l \in Locales |-> NoMessages]]
clearCache(ld, language) ==
  IF language # ""
  THEN [ld EXCEPT !.cache[language] = NoMessages]
  ELSE [ld EXCEPT !.cache = [l \in Locales |-> NoMessages]]

\* ------------------------------------------------------------ index.ts

\* no instance created yet; a created instance knows its tracker, the vue-i18n
\* instance it wraps, the options contentKey (set?), enableCdnLoading and
\* loadPath, and whether a loader was created
NoI18n ==
  [made |-> FALSE, tracker |-> "-", host |-> "-", contentKey |-> FALSE,
   enableCdnLoading |-> FALSE, loadPath |-> Undefined, hasLoader |-> FALSE]

\* loader = enableCdnLoading || contentKey ? createContentstorageLoader(...) : null
HasLoaderAlways(enableCdnLoading, contentKey) == TRUE
HasLoader(enableCdnLoading, contentKey) == enableCdnLoading \/ contentKey

\* global && 'setLocaleMessage' in global
HasSetLocaleMessage(host) == host.shape \in {"composer", "legacy", "throwing"}

\* global.setLocaleMessage(language, translations)
setLocaleMessage(host, language, translations) ==
  [host EXCEPT !.msgs[language] = Messages(translations)]

\* ------------------------------------------------------------ inputs

\* a top-level page, the editor's iframe with the marker, server-side rendering
EnvTop == [browser |-> TRUE, inIframe |-> FALSE, hasMarker |-> FALSE, topThrows |-> FALSE]
EnvEditor == [browser |-> TRUE, inIframe |-> TRUE, hasMarker |-> TRUE, topThrows |-> FALSE]
EnvServer == [browser |-> FALSE, inIframe |-> FALSE, hasMarker |-> FALSE, topThrows |-> FALSE]

\* every execution context: with or without window, embedded or not, with or
\* without the marker parameter, reading window.top failing or not
AllEnvs ==
  [browser : BOOLEAN, inIframe : BOOLEAN, hasMarker : BOOLEAN, topThrows : BOOLEAN]

\* options of the two trackers: T1 is forced live, T2 relies on detection
MaxSizeOptions(t) == IF t = "T1" THEN {0, MaxN} ELSE {MaxN}
ForceOption(t) == t = "T1"

\* argument of trackMessages
TreeAB ==
  Obj(<< <<<<"e">>, Str("Hello John!")>>,
         <<<<"n">>, Obj(<< <<<<"t">>, Str("Hello {name}!")>> >>)>> >>)

\* what the CDN can answer for a language: message trees, and JSON that is
\* no object (null, an empty string)
CdnContent(language) == IF language = "en" THEN {TreeAB, TreeEn} ELSE {TreeFr}
CdnTrees == UNION { CdnContent(l) : l \in Locales }
FalsyAnswers == {Null, Str("")}
CdnAnswers == CdnTrees \cup FalsyAnswers

\* the option loadPath of a loader
LoadPaths == {Undefined, LoadPathTemplate, LoadPathFunction}

\* arguments of direct flattenTranslations calls: objects nested up to two
\* levels with up to two properties each, whose leaves are strings (one of them
\* empty), a number, arrays (empty, holding a string) and null; arrays given as
\* the argument itself; and inputs that are not objects
FlattenKeys == { <<"a">>, <<"b">> }
FlattenLeaves == {Str("Hi"), Str(""), Num, Arr, ArrOf(<<Str("Yo")>>), Null}
FlattenArrays ==
  { Arr, ArrOf(<<Str("Hi")>>), ArrOf(<<Str("Hi"), Obj(<< <<<<"b">>, Str("Yo")>> >>)>>),
    ArrOf(<<ArrOf(<<Str("Hi")>>), Num, Str("")>>) }
PropLists(values) ==
  {<<>>}
    \cup { << <<k, v>> >> : k \in FlattenKeys, v \in values }
    \cup { << <<k[1], v[1]>>, <<k[2], v[2]>> >> :
             k \in { q \in FlattenKeys \X FlattenKeys : q[1] # q[2] },
             v \in values \X values }
ObjectsOver(values) == { Obj(c) : c \in PropLists(values) }
FlattenInputs ==
  ObjectsOver(FlattenLeaves \cup ObjectsOver(FlattenLeaves))
    \cup FlattenArrays
    \cup {Null, Undefined, Str("Hi"), Num}

\* message trees for the round trip between flattenTranslations and
\* getNestedValue: up to two properties at the top, nested objects with up to
\* one property, property names that are plain, contain a '.', or are empty;
\* a leaf may be an array holding a string
RoundTripKeys == { <<"a">>, <<"b">>, <<"a", ".", "b">>, <<>> }
RoundTripLeaves == {Str("Hi"), Str("Yo"), Str(""), Num, ArrOf(<<Str("Hi")>>)}
RoundTripInner ==
  {Obj(<<>>)} \cup { Obj(<< <<k, v>> >>) : k \in RoundTripKeys, v \in RoundTripLeaves }
RoundTripValues == RoundTripLeaves \cup RoundTripInner
RoundTripTrees ==
  {Obj(<<>>)}
    \cup { Obj(<< <<k, v>> >>) : k \in RoundTripKeys, v \in RoundTripValues }
    \cup { Obj(<< <<k[1], v[1]>>, <<k[2], v[2]>> >>) :
             k \in { q \in RoundTripKeys \X RoundTripKeys : q[1] # q[2] },
             v \in RoundTripValues \X RoundTripValues }

\* arguments of direct trackTranslation calls
DirectValues == {"Value A", "Value B", "Value C"}
DirectKeys == { <<"k", "1">>, <<"k", "2">> }
VarChoices(value) ==
  IF value = "Value A" THEN {NoVars, EmptyVars, JohnVars, JaneVars} ELSE {NoVars}

NoCall ==
  [op |-> "none", t |-> "-", h |-> "-", v |-> Undefined, k |-> <<>>, arg |-> "-", n |-> 0,
   after |-> "-",
   vars |-> NoVars, ret |-> Undefined, threw |-> FALSE, ev |-> <<>>, out |-> "-"]

NoTrackers ==
  [t \in Trackers |-> [id |-> t, made |-> FALSE, live |-> FALSE, attached |-> FALSE, max |-> 0]]

NewHost(shape, msgs, orig) ==
  [shape |-> shape, locale |-> "en", msgs |-> msgs, orig |-> orig, chain |-> <<>>, base |-> orig]

\* ------------------------------------------------------------ initial state

\* no tracker constructed, window.memoryMap not set; instance H1 has one of the
\* shapes1 (a Composer carries the full message store), instance H2 one of the
\* shapes2 and an upper-casing handler of its own
InitExceptLast(envs, origs, shapes1, shapes2) ==
  /\ env \in envs
  /\ now = 1
  /\ memoryMap = [ref |-> 0, entries |-> <<>>]
  /\ curLang = "undef"
  /\ refreshFn = "undef"
  /\ liveEditorScript = NoScript
  /\ trackers = NoTrackers
  /\ \E o1 \in origs, s1 \in shapes1, s2 \in shapes2 :
       hosts = [h \in Hosts |->
                  IF h = "H1"
                  THEN NewHost(s1, IF s1 = "composer" THEN FullMessages ELSE SparseMessages, o1)
                  ELSE NewHost(s2, SparseMessages, "uppercase")]
  /\ hist = {}
  /\ i18n = NoI18n
  /\ loader = NoLoader
  /\ pending = <<>>

InitWith(envs, origs, shapes1, shapes2) ==
  /\ InitExceptLast(envs, origs, shapes1, shapes2)
  /\ last = NoCall

Init == InitWith({EnvTop, EnvServer}, {"uppercase"}, HostShapes \ {"noglobal"}, {"noglobal"})

\* ------------------------------------------------------------ operations

\* Date.now() advances
Tick ==
  /\ now < MaxClock
  /\ now' = now + 1
  /\ UNCHANGED <<cdnVars, env, liveEditorScript, memoryMap, curLang, refreshFn, trackers, hosts, hist, last>>

\* new ContentstorageTracker({forceLiveMode, maxMemoryMapSize})
ConstructInitializingAlways(t, forceLiveMode, maxMemoryMapSize) ==
  /\ ~trackers[t].made
  /\ LET isLiveMode == detectLiveEditorMode(env, forceLiveMode)
     IN /\ trackers' = [trackers EXCEPT ![t] =
                          [id |-> t, made |-> TRUE, live |-> isLiveMode,
                           attached |-> FALSE, max |-> maxMemoryMapSize]]
        /\ memoryMap' = initializeMemoryMap(memoryMap)
        /\ refreshFn' = exposeRefreshFunction(refreshFn, t)
        /\ liveEditorScript' = loadLiveEditorScript(liveEditorScript, 2)
  /\ last' = [NoCall EXCEPT !.op = "construct", !.t = t,
                            !.arg = IF forceLiveMode THEN "force" ELSE "detect"]
  /\ UNCHANGED <<cdnVars, env, now, curLang, hosts, hist>>

Construct(t, forceLiveMode, maxMemoryMapSize) ==
  /\ ~trackers[t].made
  /\ LET isLiveMode == detectLiveEditorMode(env, forceLiveMode)
     IN /\ trackers' = [trackers EXCEPT ![t] =
                          [id |-> t, made |-> TRUE, live |-> isLiveMode,
                           attached |-> FALSE, max |-> maxMemoryMapSize]]
        /\ memoryMap' = IF isLiveMode THEN initializeMemoryMap(memoryMap) ELSE memoryMap
        /\ refreshFn' = IF isLiveMode THEN exposeRefreshFunction(refreshFn, t) ELSE refreshFn
        /\ liveEditorScript' = IF isLiveMode THEN loadLiveEditorScript(liveEditorScript, 2)
                                ELSE liveEditorScript
  /\ last' = [NoCall EXCEPT !.op = "construct", !.t = t,
                            !.arg = IF forceLiveMode THEN "force" ELSE "detect"]
  /\ UNCHANGED <<cdnVars, env, now, curLang, hosts, hist>>

\* the handler the instance holds after setupPostTranslationHandler of tracker t
setupPostTranslationHandler(host, t) ==
  IF HasHandlerMethods(host)
  THEN [host EXCEPT !.chain = Append(host.chain, t)]
  ELSE [host EXCEPT !.chain = <<t>>, !.base = "none"]

\* tracker.attach(i18n) on the page state st: the tracker table, the
\* instances, the current language code and the index
attachTrackingMessages(st, t, h) ==
  IF isAttached(st.trackers[t]) THEN [st EXCEPT !.out = "already"]
  ELSE IF ~inLiveMode(st.trackers[t]) THEN [st EXCEPT !.out = "notlive"]
  ELSE IF ~getGlobalInstance(st.hosts[h]) THEN [st EXCEPT !.out = "noglobal"]
  ELSE
    LET locale == getLocale(st.hosts[h])
        messages == getLocaleMessages(st.hosts[h], locale)
        flat == IF messages.present THEN flattenTranslations(messages.tree) ELSE <<>>
    IN [st EXCEPT
          !.out = "attached",
          !.curLang = IF locale # "null" THEN setCurrentLanguageCode(@, locale) ELSE @,
          !.hosts[h] = setupPostTranslationHandler(@, t),
          !.trackers[t].attached = TRUE,
          !.memoryMap = IF flat # <<>>
                        THEN trackTranslation(@, flat[1][2], flat[1][1], "undef", locale,
                                              now, NoVars)
                        ELSE @]

attach(st, t, h) ==
  IF isAttached(st.trackers[t]) THEN [st EXCEPT !.out = "already"]
  ELSE IF ~inLiveMode(st.trackers[t]) THEN [st EXCEPT !.out = "notlive"]
  ELSE IF ~getGlobalInstance(st.hosts[h]) THEN [st EXCEPT !.out = "noglobal"]
  ELSE
    LET locale == getLocale(st.hosts[h])
    IN [st EXCEPT
          !.out = "attached",
          !.curLang = IF locale # "null" THEN setCurrentLanguageCode(@, locale) ELSE @,
          !.hosts[h] = setupPostTranslationHandler(@, t),
          !.trackers[t].attached = TRUE]

\* the page state a call of attach starts from
PageState(trs, mm) ==
  [trackers |-> trs, hosts |-> hosts, curLang |-> curLang, memoryMap |-> mm, out |-> "-"]

AttachWithoutLiveCheck(t, h) ==
  /\ trackers[t].made
  /\ ~isAttached(trackers[t])
  /\ getGlobalInstance(hosts[h])
  /\ last' = [NoCall EXCEPT !.op = "attach", !.t = t, !.h = h, !.out = "attached"]
  /\ curLang' = IF getLocale(hosts[h]) # "null"
                THEN setCurrentLanguageCode(curLang, getLocale(hosts[h]))
                ELSE curLang
  /\ hosts' = [hosts EXCEPT ![h] = setupPostTranslationHandler(hosts[h], t)]
  /\ trackers' = [trackers EXCEPT ![t].attached = TRUE]
  /\ UNCHANGED <<cdnVars, env, liveEditorScript, now, memoryMap, refreshFn, hist>>

Attach(t, h) ==
  /\ trackers[t].made
  /\ LET st == attach(PageState(trackers, memoryMap), t, h)
     IN /\ trackers' = st.trackers
        /\ hosts' = st.hosts
        /\ curLang' = st.curLang
        /\ memoryMap' = st.memoryMap
        /\ last' = [NoCall EXCEPT !.op = "attach", !.t = t, !.h = h, !.out = st.out,
                                  !.after = IF st.out = "attached" /\ last.op = "attach"
                                               /\ last.out = "noglobal" /\ last.t = t
                                            THEN "failed attach" ELSE "-"]
  /\ UNCHANGED <<cdnVars, env, liveEditorScript, now, refreshFn, hist>>

\* attachContentstorageTracker(i18n, options): creates tracker t and attaches
\* it to the instance h the application made
AttachContentstorageTracker(t, h, forceLiveMode, maxMemoryMapSize) ==
  /\ ~trackers[t].made
  /\ LET isLiveMode == detectLiveEditorMode(env, forceLiveMode)
         constructed == [trackers EXCEPT ![t] =
                           [id |-> t, made |-> TRUE, live |-> isLiveMode,
                            attached |-> FALSE, max |-> maxMemoryMapSize]]
         st == attach(PageState(constructed,
                                IF isLiveMode THEN initializeMemoryMap(memoryMap)
                                ELSE memoryMap), t, h)
     IN /\ trackers' = st.trackers
        /\ memoryMap' = st.memoryMap
        /\ refreshFn' = IF isLiveMode THEN exposeRefreshFunction(refreshFn, t) ELSE refreshFn
        /\ liveEditorScript' = IF isLiveMode THEN loadLiveEditorScript(liveEditorScript, 2)
                                ELSE liveEditorScript
        /\ curLang' = st.curLang
        /\ hosts' = st.hosts
        /\ last' = [NoCall EXCEPT !.op = "attachContentstorageTracker", !.t = t, !.h = h,
                                  !.arg = IF forceLiveMode THEN "force" ELSE "detect",
                                  !.out = st.out]
  /\ UNCHANGED <<cdnVars, env, now, hist>>

\* the host library resolves a translation and calls the post-translation
\* handler installed on instance h with (translated, key)
Translate(h, translated, key) ==
  /\ getGlobalInstance(hosts[h])
  /\ LET st0 == [mm |-> memoryMap, lang |-> curLang, hist |-> hist, ev |-> <<>>,
                 threw |-> FALSE, ret |-> Undefined]
         st == RunChain(st0, hosts[h], Len(hosts[h].chain), translated, key, now)
     IN /\ memoryMap' = st.mm
        /\ curLang' = st.lang
        /\ hist' = st.hist
        /\ last' = [NoCall EXCEPT !.op = "translate", !.h = h, !.v = translated, !.k = key,
                                  !.ret = st.ret, !.threw = st.threw, !.ev = st.ev,
                                  !.after = IF last.op = "refresh" THEN "refresh" ELSE "-"]
  /\ UNCHANGED <<cdnVars, env, liveEditorScript, now, refreshFn, trackers, hosts>>

\* the application switches the active locale of instance h
SetLocale(h, l) ==
  /\ hosts[h].locale # l
  /\ hosts' = [hosts EXCEPT ![h].locale = l]
  /\ UNCHANGED <<cdnVars, env, liveEditorScript, now, memoryMap, curLang, refreshFn, trackers, hist, last>>

\* the loop of trackMessages / preloadMessages: calls up to tickAt read the
\* clock value ts, later ones read ts + 1
RECURSIVE TrackFlat(_, _, _, _, _, _)
TrackFlat(st, flat, i, language, ts, tickAt) ==
  IF i > Len(flat) THEN st
  ELSE
    LET key == flat[i][1]
        value == flat[i][2]
        st1 == IF value = "" THEN st
               ELSE TrackStep(st, value, key, language,
                              IF i <= tickAt THEN ts ELSE ts + 1, NoVars)
    IN TrackFlat(st1, flat, i + 1, language, ts, tickAt)

\* tracker.trackMessages(messages, language)
TrackMessages(t, messages, language, tickAt) ==
  /\ trackers[t].made
  /\ tickAt \in 0..Len(flattenTranslations(messages))
  /\ tickAt = 0 => flattenTranslations(messages) = <<>>
  /\ tickAt = Len(flattenTranslations(messages)) \/ now < MaxClock
  /\ last' = [NoCall EXCEPT !.op = "trackMessages", !.t = t]
  /\ IF ~inLiveMode(trackers[t])
     THEN /\ tickAt = Len(flattenTranslations(messages))
          /\ UNCHANGED <<memoryMap, hist, now>>
     ELSE LET flat == flattenTranslations(messages)
              st0 == [mm |-> memoryMap, hist |-> hist]
              st1 == TrackFlat(st0, flat, 1, language, now, tickAt)
              st2 == IF ShouldCleanup(trackers[t]) THEN CleanStep(st1, trackers[t].max) ELSE st1
          IN /\ memoryMap' = st2.mm
             /\ hist' = st2.hist
             /\ now' = IF tickAt < Len(flat) THEN now + 1 ELSE now
  /\ UNCHANGED <<cdnVars, env, liveEditorScript, curLang, refreshFn, trackers, hosts>>

\* tracker.preloadMessages(instance); h = "-" is a call without argument
PreloadMessages(t, h, tickAt) ==
  /\ trackers[t].made
  /\ last' = [NoCall EXCEPT !.op = "preloadMessages", !.t = t]
  /\ LET targetOk == h # "-" /\ getGlobalInstance(hosts[h])
         locale == IF targetOk THEN getLocale(hosts[h]) ELSE "null"
         messages == IF locale # "null" THEN getLocaleMessages(hosts[h], locale)
                     ELSE [threw |-> FALSE, present |-> FALSE, tree |-> Undefined]
         flat == IF isBrowser /\ inLiveMode(trackers[t]) /\ messages.present
                 THEN flattenTranslations(messages.tree) ELSE <<>>
         st0 == [mm |-> memoryMap, hist |-> hist]
         st1 == TrackFlat(st0, flat, 1, locale, now, tickAt)
     IN /\ tickAt \in 1..Len(flat) \/ (tickAt = 0 /\ flat = <<>>)
        /\ tickAt = Len(flat) \/ now < MaxClock
        /\ memoryMap' = st1.mm
        /\ hist' = st1.hist
        /\ now' = IF tickAt < Len(flat) THEN now + 1 ELSE now
  /\ UNCHANGED <<cdnVars, env, liveEditorScript, curLang, refreshFn, trackers, hosts>>

\* the editor calls window.__contentstorageRefresh()
RefreshWithoutClear ==
  /\ refreshFn # "undef"
  /\ last' = [NoCall EXCEPT !.op = "refresh",
                            !.out = IF memoryMap.entries # <<>> THEN "cleared" ELSE "empty"]
  /\ UNCHANGED <<cdnVars, env, liveEditorScript, now, memoryMap, hist, curLang, refreshFn, trackers, hosts>>

RefreshCancellingLoads ==
  /\ refreshFn # "undef"
  /\ memoryMap' = clearMemoryMap(memoryMap)
  /\ hist' = IF HasMap(memoryMap) THEN {} ELSE hist
  /\ pending' = <<>>
  /\ last' = [NoCall EXCEPT !.op = "refresh",
                            !.out = IF memoryMap.entries # <<>> THEN "cleared" ELSE "empty"]
  /\ UNCHANGED <<i18n, loader, env, liveEditorScript, now, curLang, refreshFn, trackers, hosts>>

Refresh ==
  /\ refreshFn # "undef"
  /\ memoryMap' = clearMemoryMap(memoryMap)
  /\ hist' = IF HasMap(memoryMap) THEN {} ELSE hist
  /\ last' = [NoCall EXCEPT !.op = "refresh",
                            !.out = IF memoryMap.entries # <<>> THEN "cleared" ELSE "empty"]
  /\ UNCHANGED <<cdnVars, env, liveEditorScript, now, curLang, refreshFn, trackers, hosts>>

\* a direct call initializeMemoryMap()
InitializeCall ==
  /\ memoryMap' = initializeMemoryMap(memoryMap)
  /\ last' = [NoCall EXCEPT !.op = "initializeMemoryMap"]
  /\ UNCHANGED <<cdnVars, env, liveEditorScript, now, curLang, refreshFn, trackers, hosts, hist>>

\* a direct call detectLiveEditorMode(liveEditorParam, forceLiveMode)
DetectCall(forceLiveMode) ==
  /\ last' = [NoCall EXCEPT !.op = "detectLiveEditorMode",
                            !.arg = IF forceLiveMode THEN "force" ELSE "detect",
                            !.out = IF detectLiveEditorMode(env, forceLiveMode)
                                    THEN "true" ELSE "false"]
  /\ UNCHANGED <<cdnVars, env, liveEditorScript, now, memoryMap, curLang, refreshFn, trackers, hosts, hist>>

\* a direct call setCurrentLanguageCode(languageCode)
SetCurrentLanguageCodeCall(languageCode) ==
  /\ curLang' = setCurrentLanguageCode(curLang, languageCode)
  /\ last' = [NoCall EXCEPT !.op = "setCurrentLanguageCode", !.arg = languageCode]
  /\ UNCHANGED <<cdnVars, env, liveEditorScript, now, memoryMap, refreshFn, trackers, hosts, hist>>

\* a direct call trackTranslation(value, key, undefined, language, false, variables)
TrackTranslationCall(value, key, language, variables) ==
  /\ LET st == TrackStep([mm |-> memoryMap, hist |-> hist], value, key, language, now, variables)
     IN memoryMap' = st.mm /\ hist' = st.hist
  /\ last' = [NoCall EXCEPT !.op = "trackTranslation", !.v = Str(value), !.vars = variables]
  /\ UNCHANGED <<cdnVars, env, liveEditorScript, now, curLang, refreshFn, trackers, hosts>>

\* a direct call cleanupMemoryMap(maxSize)
CleanupCall(maxSize) ==
  /\ LET st == CleanStep([mm |-> memoryMap, hist |-> hist], maxSize)
     IN memoryMap' = st.mm /\ hist' = st.hist
  /\ last' = [NoCall EXCEPT !.op = "cleanupMemoryMap",
                            !.out = IF HasMap(memoryMap) /\ Len(memoryMap.entries) > maxSize
                                    THEN "evicted" ELSE "kept"]
  /\ UNCHANGED <<cdnVars, env, liveEditorScript, now, curLang, refreshFn, trackers, hosts>>

\* a direct call clearMemoryMap()
ClearCall ==
  /\ memoryMap' = clearMemoryMap(memoryMap)
  /\ hist' = IF HasMap(memoryMap) THEN {} ELSE hist
  /\ last' = [NoCall EXCEPT !.op = "clearMemoryMap"]
  /\ UNCHANGED <<cdnVars, env, liveEditorScript, now, curLang, refreshFn, trackers, hosts>>

\* a direct call loadLiveEditorScript(retries, ...)
LoadScriptCall(retries) ==
  /\ liveEditorScript' = loadLiveEditorScript(liveEditorScript, retries)
  /\ last' = [NoCall EXCEPT !.op = "loadLiveEditorScript", !.n = retries,
                            !.out = IF liveEditorScript'.pid = 1 THEN "p1" ELSE "other"]
  /\ UNCHANGED <<cdnVars, env, now, memoryMap, curLang, refreshFn, trackers, hosts, hist>>

\* a direct call resetLiveEditorScript()
ResetScriptCall ==
  /\ liveEditorScript.resets < MaxResets
  /\ liveEditorScript' = resetLiveEditorScript(liveEditorScript)
  /\ last' = [NoCall EXCEPT !.op = "resetLiveEditorScript"]
  /\ UNCHANGED <<cdnVars, env, now, memoryMap, curLang, refreshFn, trackers, hosts, hist>>

\* what a script event records: the attempt it belongs to, whether its load
\* sequence is the one of the promise in the slot, and that sequence afterwards
ScriptEventRecord(op, i, attempt, r) ==
  [NoCall EXCEPT !.op = op, !.n = attempt, !.arg = IF i = 0 THEN "slot" ELSE "orphan",
                 !.ev = <<SeqOf(r)>>]

\* the browser reports that the script element of a load sequence has loaded
ScriptOnload ==
  /\ \E i \in 0..Len(liveEditorScript.orphans) :
       LET view == SeqView(liveEditorScript, i)
       IN /\ view.el = "loading"
          /\ liveEditorScript' = SeqMerge(liveEditorScript, i, scriptOnload(view))
          /\ last' = ScriptEventRecord("onload", i, view.attempt, scriptOnload(view))
  /\ UNCHANGED <<cdnVars, env, now, memoryMap, curLang, refreshFn, trackers, hosts, hist>>

\* the browser reports that the script element of a load sequence failed to load
ScriptOnerrorClearingIndex ==
  /\ \E i \in 0..Len(liveEditorScript.orphans) :
       LET view == SeqView(liveEditorScript, i)
       IN /\ view.el = "loading"
          /\ liveEditorScript' = SeqMerge(liveEditorScript, i, scriptOnerror(view))
          /\ last' = ScriptEventRecord("onerror", i, view.attempt, scriptOnerror(view))
  /\ memoryMap' = clearMemoryMap(memoryMap)
  /\ UNCHANGED <<cdnVars, env, now, curLang, refreshFn, trackers, hosts, hist>>

ScriptOnerror ==
  /\ \E i \in 0..Len(liveEditorScript.orphans) :
       LET view == SeqView(liveEditorScript, i)
       IN /\ view.el = "loading"
          /\ liveEditorScript' = SeqMerge(liveEditorScript, i, scriptOnerror(view))
          /\ last' = ScriptEventRecord("onerror", i, view.attempt, scriptOnerror(view))
  /\ UNCHANGED <<cdnVars, env, now, memoryMap, curLang, refreshFn, trackers, hosts, hist>>

\* the retry timer of a load sequence fires: loadScript(attempt + 1)
RetryTimer ==
  /\ \E i \in 0..Len(liveEditorScript.orphans) :
       LET view == SeqView(liveEditorScript, i)
       IN /\ view.timer
          /\ liveEditorScript' = SeqMerge(liveEditorScript, i, loadScript(view, view.attempt + 1))
          /\ last' = ScriptEventRecord("retry", i, view.attempt + 1,
                                       loadScript(view, view.attempt + 1))
  /\ UNCHANGED <<cdnVars, env, now, memoryMap, curLang, refreshFn, trackers, hosts, hist>>

\* trackMessages(messages, language) of tracker tr, every Date.now() giving ts
trackMessages(st, tr, messages, language, ts) ==
  IF ~inLiveMode(tr) THEN st
  ELSE
    LET flat == flattenTranslations(messages)
        st1 == TrackFlat(st, flat, 1, language, ts, Len(flat))
    IN IF ShouldCleanup(tr) THEN CleanStep(st1, tr.max) ELSE st1

\* the part of contentStorage.loadLanguage after the await: setLocaleMessage on
\* the global instance, then tracker.trackMessages; without a global instance
\* that offers setLocaleMessage it throws
LoadLanguageTrackOnly(st, px, trs, language, translations, ts) ==
  LET tracked == trackMessages(st, trs[px.tracker], translations, language, ts)
  IN [tracked EXCEPT
        !.ev = <<[e |-> "trackMessages", t |-> px.tracker, v |-> translations, k |-> <<>>]>>,
        !.out = "loaded"]
loadLanguageAfterAwait(st, px, trs, language, translations, ts) ==
  IF ~HasSetLocaleMessage(st.hosts[px.host])
  THEN [st EXCEPT !.out = "Could not access vue-i18n global instance", !.threw = TRUE]
  ELSE
    LET set == [st EXCEPT !.hosts[px.host] =
                            setLocaleMessage(st.hosts[px.host], language, translations)]
        tracked == trackMessages(set, trs[px.tracker], translations, language, ts)
    IN [tracked EXCEPT
          !.ev = <<[e |-> "setLocaleMessage", t |-> "-", v |-> translations, k |-> <<>>],
                   [e |-> "trackMessages", t |-> px.tracker, v |-> translations, k |-> <<>>]>>,
          !.out = "loaded"]

\* the loadLanguage calls createContentstorageI18n starts for preloadLanguages,
\* each up to its await
RECURSIVE StartPreloads(_, _, _)
StartPreloads(ld, pend, langs) ==
  IF langs = <<>> THEN [loader |-> ld, pending |-> pend]
  ELSE LET r == loadTranslations(ld, pend, Head(langs), "preload")
       IN StartPreloads(r.loader, r.pending, Tail(langs))

\* a loader created on its own: new ContentstorageLoader({contentKey, loadPath})
NewLoaderCall(contentKey, loadPath) ==
  /\ ~loader.made
  /\ ~i18n.made
  /\ loader' = NewLoader(contentKey, loadPath)
  /\ last' = [NoCall EXCEPT !.op = "newLoader"]
  /\ UNCHANGED <<i18n, pending, env, now, memoryMap, curLang, refreshFn, liveEditorScript,
                 trackers, hosts, hist>>

\* createContentstorageI18n(options): creates the vue-i18n instance h, tracker
\* t and, when configured, the loader; attaches the tracker; starts the loads of
\* preloadLanguages.  An option left out reaches the tracker as undefined, so
\* maxMemoryMapSize is 0 (no eviction) unless it is given.
CreateContentstorageI18n(t, h, contentKey, enableCdnLoading, forceLiveMode, maxMemoryMapSize, preloadLanguages, loadPath) ==
  /\ ~i18n.made
  /\ ~loader.made
  /\ ~trackers[t].made
  /\ hosts[h].chain = <<>>
  /\ getGlobalInstance(hosts[h])
  /\ LET isLiveMode == detectLiveEditorMode(env, forceLiveMode)
         hasLoader == HasLoader(enableCdnLoading, contentKey)
         created == IF hasLoader THEN NewLoader(contentKey, loadPath) ELSE loader
         started == IF preloadLanguages # <<>> /\ isBrowser /\ hasLoader
                    THEN StartPreloads(created, pending, preloadLanguages)
                    ELSE [loader |-> created, pending |-> pending]
         constructed == [trackers EXCEPT ![t] =
                           [id |-> t, made |-> TRUE, live |-> isLiveMode,
                            attached |-> FALSE, max |-> maxMemoryMapSize]]
         st == attach(PageState(constructed,
                                IF isLiveMode THEN initializeMemoryMap(memoryMap)
                                ELSE memoryMap), t, h)
     IN /\ trackers' = st.trackers
        /\ memoryMap' = st.memoryMap
        /\ refreshFn' = IF isLiveMode THEN exposeRefreshFunction(refreshFn, t) ELSE refreshFn
        /\ liveEditorScript' = IF isLiveMode THEN loadLiveEditorScript(liveEditorScript, 2)
                                ELSE liveEditorScript
        /\ curLang' = st.curLang
        /\ hosts' = st.hosts
        /\ i18n' = [made |-> TRUE, tracker |-> t, host |-> h, contentKey |-> contentKey,
                    enableCdnLoading |-> enableCdnLoading, loadPath |-> loadPath,
                    hasLoader |-> hasLoader]
        /\ loader' = started.loader
        /\ pending' = started.pending
  /\ last' = [NoCall EXCEPT !.op = "createContentstorageI18n", !.t = t, !.h = h,
                            !.arg = IF forceLiveMode THEN "force" ELSE "detect"]
  /\ UNCHANGED <<env, now, hist>>

\* loader.loadTranslations(language) called directly
LoadTranslationsCall(language) ==
  /\ loader.made
  /\ loadTranslations(loader, pending, language, "loadTranslations").loader.fetched <= MaxFetch
  /\ Len(loadTranslations(loader, pending, language, "loadTranslations").pending) <= MaxPending
  /\ LET r == loadTranslations(loader, pending, language, "loadTranslations")
     IN /\ loader' = r.loader
        /\ pending' = r.pending
        /\ last' = [NoCall EXCEPT !.op = "loadTranslations", !.arg = language,
                                  !.out = r.out, !.ret = r.ret,
                                  !.threw = r.out = "contentKey is required"]
  /\ UNCHANGED <<i18n, env, now, memoryMap, curLang, refreshFn, liveEditorScript,
                 trackers, hosts, hist>>

\* the loadLanguage calls whose loadTranslations has returned, in the order in
\* which they will resume
Resuming(pend) == SelectSeq(pend, LAMBDA r : r.stage = "resume")
FirstResuming(pend) == CHOOSE i \in 1..Len(pend) :
  pend[i].stage = "resume" /\ \A j \in 1..(i - 1) : pend[j].stage # "resume"

\* i18n.contentStorage.loadLanguage(language) up to its await: without a loader
\* it throws; otherwise it calls loadTranslations and waits for what that
\* returns, also when that comes from the cache
LoadLanguageCall(language) ==
  /\ i18n.made
  /\ loadTranslations(loader, pending, language, "loadLanguage").loader.fetched <= MaxFetch
  /\ Len(pending) < MaxPending
  /\ IF ~i18n.hasLoader THEN
       /\ last' = [NoCall EXCEPT !.op = "loadLanguage", !.arg = language,
                                 !.out = "CDN loading not enabled. Set contentKey or enableCdnLoading",
                                 !.threw = TRUE]
       /\ UNCHANGED <<loader, pending>>
     ELSE
       LET r == loadTranslations(loader, pending, language, "loadLanguage")
       IN /\ loader' = r.loader
          /\ pending' = IF r.out = "cached"
                        THEN Append(pending, [language |-> language, url |-> "-",
                                              caller |-> "loadLanguage", stage |-> "resume",
                                              tree |-> r.ret])
                        ELSE r.pending
          /\ last' = [NoCall EXCEPT !.op = "loadLanguage", !.arg = language, !.out = r.out,
                                    !.ret = r.ret, !.threw = r.out = "contentKey is required"]
  /\ UNCHANGED <<i18n, env, now, memoryMap, curLang, refreshFn, liveEditorScript, trackers,
                 hosts, hist>>

\* the response to request i arrives: ok with the translations, or a failure
\* (network error, or a status that is not ok).  loadTranslations stores the
\* translations in the cache and returns them; a loadLanguage that awaits them
\* (an explicit call or a load of preloadLanguages) resumes in a later step,
\* behind the calls that already wait to resume
Respond(i, ok, translations) ==
  /\ i \in 1..Len(pending)
  /\ pending[i].stage = "fetch"
  /\ translations \in CdnContent(pending[i].language) \cup FalsyAnswers
  /\ LET req == pending[i]
         others == SubSeq(pending, 1, i - 1) \o SubSeq(pending, i + 1, Len(pending))
         resumes == ok /\ req.caller # "loadTranslations"
     IN /\ pending' = IF resumes
                      THEN Append(others, [req EXCEPT !.stage = "resume", !.tree = translations])
                      ELSE others
        /\ loader' = IF ok THEN cacheSet(loader, req.language, translations) ELSE loader
        /\ last' = [NoCall EXCEPT
                      !.op = IF resumes THEN "response" ELSE req.caller,
                      !.arg = req.language,
                      !.out = IF ~ok THEN "Failed to load translations"
                              ELSE IF resumes THEN "stored" ELSE "loaded",
                      !.ret = IF ok THEN translations ELSE Undefined,
                      !.threw = IF ok THEN FALSE ELSE req.caller # "preload",
                      !.n = 1,
                      !.after = IF last.op = "refresh" THEN "refresh" ELSE "-"]
  /\ UNCHANGED <<i18n, env, now, memoryMap, curLang, refreshFn, liveEditorScript, trackers,
                 hosts, hist>>

\* the loadLanguage call that has waited longest for its translations resumes
\* after its await: setLocaleMessage, then trackMessages, with the tree its
\* loadTranslations returned
ResumeLoadLanguage ==
  /\ Resuming(pending) # <<>>
  /\ LET i == FirstResuming(pending)
         req == pending[i]
         st0 == [mm |-> memoryMap, hist |-> hist, hosts |-> hosts, ev |-> <<>>,
                 out |-> "loaded", threw |-> FALSE]
         st == loadLanguageAfterAwait(st0, i18n, trackers, req.language, req.tree, now)
     IN /\ pending' = SubSeq(pending, 1, i - 1) \o SubSeq(pending, i + 1, Len(pending))
        /\ memoryMap' = st.mm
        /\ hist' = st.hist
        /\ hosts' = st.hosts
        /\ last' = [NoCall EXCEPT
                      !.op = req.caller, !.arg = req.language, !.out = st.out,
                      !.ret = req.tree,
                      !.threw = st.threw /\ req.caller # "preload",
                      !.ev = st.ev, !.n = 1,
                      !.after = IF last.op = "refresh" \/ (last.op = "response" /\ last.after = "refresh")
                                THEN "refresh" ELSE "-"]
  /\ UNCHANGED <<i18n, loader, env, now, curLang, refreshFn, liveEditorScript, trackers>>

\* loader.clearCache(language); "" is the call without argument
ClearCacheCall(language) ==
  /\ loader.made
  /\ loader' = clearCache(loader, language)
  /\ last' = [NoCall EXCEPT !.op = "clearCache", !.arg = language]
  /\ UNCHANGED <<i18n, pending, env, now, memoryMap, curLang, refreshFn, liveEditorScript,
                 trackers, hosts, hist>>

\* a direct call flattenTranslations(obj) with the input drawn at the start
FlattenCall ==
  /\ last.op = "input"
  /\ last' = [last EXCEPT !.op = "flattenTranslations", !.ev = flattenTranslations(last.v)]
  /\ UNCHANGED <<cdnVars, env, now, memoryMap, curLang, refreshFn, liveEditorScript,
                 trackers, hosts, hist>>

\* ------------------------------------------------------------ specifications

\* one page: a forced-live tracker, a tracker that relies on detection, two
\* instances, the editor's refresh
Next ==
  \/ Tick
  \/ \E t \in Trackers : \E n \in MaxSizeOptions(t) : Construct(t, ForceOption(t), n)
  \/ \E t \in Trackers, h \in Hosts : Attach(t, h)
  \/ \E h \in Hosts, v \in CallValues, k \in CallKeys : Translate(h, v, k)
  \/ \E l \in Locales : SetLocale("H1", l)
  \/ \E t \in Trackers : \E i \in 1..2 : TrackMessages(t, TreeAB, "en", i)
  \/ \E t \in Trackers, h \in Hosts \cup {"-"}, i \in 0..1 : PreloadMessages(t, h, i)
  \/ Refresh

Spec == Init /\ [][Next]_vars

\* the hook layer: both trackers can be live (inside the editor's iframe) and
\* attach to the two instances in any order
InitHooks ==
  InitWith({EnvTop, EnvEditor}, HandlerKinds, {"composer"}, HostShapes \ {"composer"})

NextHooks ==
  \/ \E t \in Trackers : Construct(t, ForceOption(t), MaxN)
  \/ \E t \in Trackers, h \in Hosts : Attach(t, h)
  \/ \E h \in Hosts, v \in CallValues, k \in CallKeys : Translate(h, v, k)

SpecHooks == InitHooks /\ [][NextHooks]_vars

\* the reverse index driven through the exported functions of utils.ts
InitIndex == InitWith({EnvTop, EnvServer}, {"none"}, {"composer"}, {"noglobal"})

NextIndex ==
  \/ Tick
  \/ InitializeCall
  \/ \E v \in DirectValues, k \in DirectKeys : \E x \in VarChoices(v) :
       TrackTranslationCall(v, k, "en", x)
  \/ \E n \in 0..MaxN : CleanupCall(n)
  \/ ClearCall
  \/ SetCurrentLanguageCodeCall("fr")

SpecIndex == InitIndex /\ [][NextIndex]_vars

\* the life of the trackers of one page in every execution context: detection,
\* construction with and without forceLiveMode, attach, the shared index
InitLifecycle == InitWith(AllEnvs, {"uppercase"}, {"composer"}, {"noglobal"})

NextLifecycle ==
  \/ \E f \in BOOLEAN : DetectCall(f)
  \/ \E t \in Trackers, f \in BOOLEAN : Construct(t, f, MaxN)
  \/ \E t \in Trackers, h \in Hosts : Attach(t, h)
  \/ InitializeCall
  \/ \E t \in Trackers : TrackMessages(t, TreeAB, "en", 2)
  \/ \E n \in 0..MaxN : CleanupCall(n)
  \/ Refresh

SpecLifecycle == InitLifecycle /\ [][NextLifecycle]_vars

\* bulk tracking: trackMessages with trees that hold string, empty-string and
\* number leaves or no leaf at all, preloadMessages from a Composer, locale switches
BulkTrees == {TreeEn, TreeFr, TreeEmpty, Obj(<< <<<<"c">>, Num>> >>)}

InitBulk == InitWith({EnvTop, EnvServer}, {"none"}, {"composer"}, {"noglobal"})

NextBulk ==
  \/ Tick
  \/ \E t \in Trackers : \E n \in MaxSizeOptions(t) : Construct(t, ForceOption(t), n)
  \/ \E t \in Trackers, tree \in BulkTrees, l \in Locales, i \in 0..2 :
       TrackMessages(t, tree, l, i)
  \/ \E t \in Trackers, i \in 0..2 : PreloadMessages(t, "H1", i)
  \/ \E l \in Locales : SetLocale("H1", l)

SpecBulk == InitBulk /\ [][NextBulk]_vars

\* the load of the editor's script: trackers constructed in live mode, direct
\* calls with any retries argument, the browser's load and error events, the
\* retry timer
MaxRetries == 3

InitScript == InitWith({EnvTop, EnvServer}, {"none"}, {"composer"}, {"noglobal"})

NextScript ==
  \/ \E t \in Trackers : Construct(t, TRUE, MaxN)
  \/ \E t \in Trackers, h \in Hosts : Attach(t, h)
  \/ \E r \in 0..MaxRetries : LoadScriptCall(r)
  \/ ResetScriptCall
  \/ ScriptOnload
  \/ ScriptOnerror
  \/ RetryTimer

SpecScript == InitScript /\ [][NextScript]_vars

\* the script load when the browser plays its part: every script element in
\* the document eventually fires its load or its error event, and every
\* pending setTimeout callback eventually runs
SpecScriptFair ==
  /\ SpecScript
  /\ WF_vars(ScriptOnload \/ ScriptOnerror)
  /\ WF_vars(RetryTimer)

\* the instance made by createContentstorageI18n and its loader: languages
\* loaded from the CDN on demand and at start, responses arriving in any order,
\* the content of the CDN changing between requests
PreloadOptions == {<<>>, <<"fr">>}

InitCdn == InitWith({EnvTop, EnvServer}, {"none"}, {"composer"}, {"noglobal"})

NextCdn ==
  \/ Tick
  \/ \E ck \in BOOLEAN : NewLoaderCall(ck, Undefined)
  \/ \E ck \in BOOLEAN, en \in BOOLEAN, n \in {0, MaxN}, pl \in PreloadOptions :
       CreateContentstorageI18n("T1", "H1", ck, en, TRUE, n, pl, Undefined)
  \/ \E l \in Locales : LoadTranslationsCall(l)
  \/ \E l \in Locales : LoadLanguageCall(l)
  \/ \E i \in 1..MaxPending, ok \in BOOLEAN, tree \in CdnTrees : Respond(i, ok, tree)
  \/ ResumeLoadLanguage
  \/ \E l \in Locales \cup {""} : ClearCacheCall(l)
  \/ \E l \in Locales : SetLocale("H1", l)

SpecCdn == InitCdn /\ [][NextCdn]_vars

\* the loader under every configuration of contentKey, enableCdnLoading and
\* loadPath, created on its own or by createContentstorageI18n, with answers
\* of the CDN that are message trees, null or an empty string
InitLoader == InitWith({EnvTop}, {"none"}, {"composer"}, {"noglobal"})

NextLoader ==
  \/ \E ck \in BOOLEAN, lp \in LoadPaths : NewLoaderCall(ck, lp)
  \/ \E ck \in BOOLEAN, en \in BOOLEAN, pl \in PreloadOptions, lp \in LoadPaths :
       CreateContentstorageI18n("T1", "H1", ck, en, TRUE, 0, pl, lp)
  \/ \E l \in Locales : LoadTranslationsCall(l)
  \/ \E l \in Locales : LoadLanguageCall(l)
  \/ \E i \in 1..MaxPending, ok \in BOOLEAN, tree \in CdnAnswers : Respond(i, ok, tree)
  \/ ResumeLoadLanguage
  \/ \E l \in Locales \cup {""} : ClearCacheCall(l)

SpecLoader == InitLoader /\ [][NextLoader]_vars

\* the ways a tracker gets attached and the ways the index gets entries: the
\* constructor followed by attach, attachContentstorageTracker and
\* createContentstorageI18n on instances that hold messages, then translation
\* calls, trackMessages, preloadMessages and the loads of loadLanguage and of
\* preloadLanguages
InitAttach == InitWith({EnvTop}, {"none"}, {"composer"}, {"composer"})

NextAttach ==
  \/ Construct("T2", TRUE, MaxN)
  \/ \E t \in Trackers, h \in Hosts : Attach(t, h)
  \/ \E h \in Hosts, f \in BOOLEAN : AttachContentstorageTracker("T2", h, f, MaxN)
  \/ \E f \in BOOLEAN, pl \in PreloadOptions :
       CreateContentstorageI18n("T1", "H1", TRUE, FALSE, f, 0, pl, Undefined)
  \/ \E h \in Hosts, v \in CallValues, k \in CallKeys : Translate(h, v, k)
  \/ \E t \in Trackers : TrackMessages(t, TreeAB, "en", 2)
  \/ \E t \in Trackers, i \in {0, 2} : PreloadMessages(t, "H1", i)
  \/ LoadLanguageCall("fr")
  \/ \E i \in 1..MaxPending, ok \in BOOLEAN, tree \in CdnTrees : Respond(i, ok, tree)
  \/ ResumeLoadLanguage

SpecAttach == InitAttach /\ [][NextAttach]_vars

\* flattenTranslations as a function of its input
InitFlatten ==
  /\ InitExceptLast({EnvTop}, {"none"}, {"composer"}, {"noglobal"})
  /\ \E obj \in FlattenInputs : last = [NoCall EXCEPT !.op = "input", !.v = obj]

NextFlatten == FlattenCall

SpecFlatten == InitFlatten /\ [][NextFlatten]_vars

\* the application replaces the messages of a locale:
\* i18n.global.setLocaleMessage(locale, messages)
SetLocaleMessageCall(h, l, tree) ==
  /\ HasSetLocaleMessage(hosts[h])
  /\ hosts[h].msgs[l] # Messages(tree)
  /\ hosts' = [hosts EXCEPT ![h] = setLocaleMessage(hosts[h], l, tree)]
  /\ UNCHANGED <<cdnVars, env, liveEditorScript, now, memoryMap, curLang, refreshFn, trackers, hist, last>>

\* preloadMessages from an instance whose message trees the application has
\* replaced, with trackers of every configured maximum
PreloadTrees == {TreeAB, TreeEn}

InitPreload == InitWith({EnvTop, EnvServer}, {"none"}, {"composer"}, {"noglobal"})

NextPreload ==
  \/ Tick
  \/ \E t \in Trackers : \E n \in MaxSizeOptions(t) : Construct(t, ForceOption(t), n)
  \/ \E l \in Locales, tree \in PreloadTrees : SetLocaleMessageCall("H1", l, tree)
  \/ \E l \in Locales : SetLocale("H1", l)
  \/ \E t \in Trackers, i \in 0..2 : PreloadMessages(t, "H1", i)

SpecPreload == InitPreload /\ [][NextPreload]_vars

\* tracking while the editor's script loads: a forced-live tracker on a page,
\* attach, translation calls, trackMessages, preloadMessages and refresh
\* interleaved in any order with the load and error events of the script
\* elements and the retry timer
InitInterleave == InitWith({EnvTop}, {"uppercase"}, {"composer"}, {"noglobal"})

NextInterleave ==
  \/ Tick
  \/ Construct("T1", TRUE, MaxN)
  \/ Attach("T1", "H1")
  \/ \E v \in CallValues, k \in CallKeys : Translate("H1", v, k)
  \/ TrackMessages("T1", TreeAB, "en", 2)
  \/ PreloadMessages("T1", "H1", 2)
  \/ Refresh
  \/ ResetScriptCall
  \/ ScriptOnload
  \/ ScriptOnerror
  \/ RetryTimer

SpecInterleave == InitInterleave /\ [][NextInterleave]_vars

\* the editor's refresh while languages load: the instance made by
\* createContentstorageI18n in the editor, loadLanguage calls and the loads of
\* preloadLanguages in flight, translation calls, refresh at any point
InitCdnRefresh == InitWith({EnvTop}, {"none"}, {"composer"}, {"noglobal"})

NextCdnRefresh ==
  \/ Tick
  \/ \E en \in BOOLEAN, n \in {0, MaxN}, pl \in PreloadOptions :
       CreateContentstorageI18n("T1", "H1", TRUE, en, TRUE, n, pl, Undefined)
  \/ \E l \in Locales : LoadLanguageCall(l)
  \/ \E i \in 1..MaxPending, ok \in BOOLEAN, tree \in CdnTrees : Respond(i, ok, tree)
  \/ ResumeLoadLanguage
  \/ \E v \in CallValues, k \in CallKeys : Translate("H1", v, k)
  \/ Refresh

SpecCdnRefresh == InitCdnRefresh /\ [][NextCdnRefresh]_vars

\* bulk and lazy tracking of one message tree: flattenTranslations(T) as
\* trackMessages and preloadMessages call it, then for each pair [key, value]
\* the lookup handleTranslation makes for that key, getNestedValue(T, key), and
\* the template it tracks for a resolved value "Hello John!"
RoundTripCall ==
  /\ last.op = "tree"
  /\ LET flat == flattenTranslations(last.v)
     IN last' = [last EXCEPT
                   !.op = "roundTrip",
                   !.ev = [i \in 1..Len(flat) |->
                             [k |-> flat[i][1], s |-> flat[i][2],
                              v |-> getNestedValue(last.v, flat[i][1]),
                              template |-> TemplateOf(getNestedValue(last.v, flat[i][1]),
                                                      "Hello John!")]]]
  /\ UNCHANGED <<cdnVars, env, now, memoryMap, curLang, refreshFn, liveEditorScript,
                 trackers, hosts, hist>>

InitRoundTrip ==
  /\ InitExceptLast({EnvTop}, {"none"}, {"composer"}, {"noglobal"})
  /\ \E tree \in RoundTripTrees : last = [NoCall EXCEPT !.op = "tree", !.v = tree]

NextRoundTrip == RoundTripCall

SpecRoundTrip == InitRoundTrip /\ [][NextRoundTrip]_vars

TypeOK ==
  /\ now \in 1..MaxClock
  /\ memoryMap.ref \in {0, 1}
  /\ curLang \in Locales \cup {"undef"}
  /\ refreshFn \in Trackers \cup {"undef"}
  /\ liveEditorScript.promise \in {"null", "pending", "true", "false", "rejected"}

\* ------------------------------------------------------------ properties

ValuesOf(mm) == { mm.entries[i].value : i \in 1..Len(mm.entries) }
EntryOf(mm, value) == mm.entries[IndexOfValue(mm.entries, value)]
InChain(t, h) == \E i \in 1..Len(hosts[h].chain) : hosts[h].chain[i] = t
Intercepted(h) == hosts[h].chain # <<>>
StringCallValues == { v \in CallValues : v.t = "str" }

\* the node the message store of instance h holds for its active locale at the
\* dot-separated path key; undefined when the store cannot be read
RawTemplate(h, key) ==
  IF hosts[h].shape \in {"composer", "legacy"} /\ hosts[h].msgs[hosts[h].locale].present
  THEN getNestedValue(hosts[h].msgs[hosts[h].locale].tree, key)
  ELSE Undefined

\* the entry for value is in the index after the step with key among its keys
\* and the time of the call, or the step's own cleanup has evicted it
TrackedOrEvicted(value, key) ==
  /\ value \in ValuesOf(memoryMap') =>
       /\ key \in EntryOf(memoryMap', value).ids
       /\ EntryOf(memoryMap', value).ts = now
  /\ value \notin ValuesOf(memoryMap') =>
       Len(memoryMap'.entries) <
         Len(memoryMap.entries) + (IF value \in ValuesOf(memoryMap) THEN 0 ELSE 1)

\* the entry for value is neither created nor changed by the step
Untouched(value) ==
  /\ value \notin ValuesOf(memoryMap) => value \notin ValuesOf(memoryMap')
  /\ value \in ValuesOf(memoryMap) /\ value \in ValuesOf(memoryMap') =>
       EntryOf(memoryMap', value) = EntryOf(memoryMap, value)

CallsOfTracker(t) ==
  \/ \E h \in Hosts : Attach(t, h)
  \/ \E i \in 1..2 : TrackMessages(t, TreeAB, "en", i)
  \/ \E h \in Hosts \cup {"-"}, i \in 0..1 : PreloadMessages(t, h, i)

\* C1: a tracker that is not in live mode never changes the reverse index:
\* its attach, trackMessages and preloadMessages calls leave the index slot as
\* it is, it never gets a wrapper onto an instance, translation calls on an
\* instance without wrapper leave the index alone, and while no live tracker
\* exists the slot stays unset.
C1_NonLiveNeverMutates ==
  /\ [](\A t \in Trackers :
          trackers[t].made /\ ~trackers[t].live =>
            ~trackers[t].attached /\ \A h \in Hosts : ~InChain(t, h))
  /\ []((\A t \in Trackers : ~(trackers[t].made /\ trackers[t].live)) => memoryMap.ref = 0)
  /\ [][ /\ \A t \in Trackers :
              trackers[t].made /\ ~trackers[t].live /\ CallsOfTracker(t) =>
                memoryMap' = memoryMap /\ hosts' = hosts
         /\ \A h \in Hosts, v \in CallValues, k \in CallKeys :
              ~Intercepted(h) /\ Translate(h, v, k) => memoryMap' = memoryMap ]_vars

C1_Witness ==
  /\ last.op = "trackMessages"
  /\ last.t = "T2"
  /\ ~trackers["T2"].live
  /\ trackers["T1"].live
  /\ memoryMap.entries # <<>>

\* C2: when a trackMessages call or an intercepted translation call of a live
\* tracker with maxMemoryMapSize N >= 0 returns, the index holds at most N
\* entries.
C2_SizeBound ==
  [][\A t \in Trackers :
       /\ trackers[t].live
       /\ \/ \E i \in 1..2 : TrackMessages(t, TreeAB, "en", i)
          \/ \E h \in Hosts, v \in StringCallValues, k \in CallKeys :
               InChain(t, h) /\ Translate(h, v, k)
       => Len(memoryMap'.entries) <= trackers[t].max]_vars

\* C3 as stated: whenever the active locale's message tree holds a string at
\* the key (the empty string included), the intercepted call tracks that
\* string and creates no entry for the resolved value.
C3_TemplateRecoveryAnyString ==
  [][\A h \in Hosts, v \in StringCallValues, k \in CallKeys :
       /\ Translate(h, v, k)
       /\ Intercepted(h)
       /\ HasMap(memoryMap)
       /\ RawTemplate(h, k).t = "str"
       => /\ TrackedOrEvicted(RawTemplate(h, k).s, k)
          /\ v.s # RawTemplate(h, k).s => Untouched(v.s)]_vars

\* C3: when the active locale's message tree holds a non-empty string template
\* at the key, the intercepted call creates or updates the entry keyed by that
\* raw template, with the key among its keys, and neither creates nor changes
\* an entry keyed by the resolved value.
C3_TemplateRecovery ==
  [][\A h \in Hosts, v \in StringCallValues, k \in CallKeys :
       /\ Translate(h, v, k)
       /\ Intercepted(h)
       /\ HasMap(memoryMap)
       /\ RawTemplate(h, k).t = "str"
       /\ RawTemplate(h, k).s # ""
       => /\ TrackedOrEvicted(RawTemplate(h, k).s, k)
          /\ v.s # RawTemplate(h, k).s => Untouched(v.s)]_vars

C3_Witness ==
  /\ last.op = "translate"
  /\ last.v = Str("Hello John!")
  /\ last.k = <<"n", ".", "t">>
  /\ Intercepted(last.h)
  /\ RawTemplate(last.h, last.k) = Str("Hello {name}!")
  /\ "Hello {name}!" \in ValuesOf(memoryMap)
  /\ last.k \in EntryOf(memoryMap, "Hello {name}!").ids
  /\ "Hello John!" \notin ValuesOf(memoryMap)

\* C4: when the key does not resolve to a string in the active locale's
\* message tree, or the tree cannot be read or is missing, the intercepted
\* call tracks the resolved value, throws nothing and returns a value.
C4_Fallback ==
  [][\A h \in Hosts, v \in StringCallValues, k \in CallKeys :
       /\ Translate(h, v, k)
       /\ Intercepted(h)
       /\ HasMap(memoryMap)
       /\ RawTemplate(h, k).t # "str"
       => /\ TrackedOrEvicted(v.s, k)
          /\ ~last'.threw
          /\ last'.ret.t # "undef"]_vars

C4_Witness ==
  /\ last.op = "translate"
  /\ last.v.t = "str"
  /\ Intercepted(last.h)
  /\ hosts[last.h].shape = "throwing"
  /\ ~last.threw
  /\ last.ret.t = "str"
  /\ last.v.s \in ValuesOf(memoryMap)
  /\ last.k \in EntryOf(memoryMap, last.v.s).ids

ExistingEvents(ev) == { i \in 1..Len(ev) : ev[i].e = "existing" }
TrackEvents(ev, t) == { i \in 1..Len(ev) : ev[i].e = "track" /\ ev[i].t = t }
ChainPlaces(t) ==
  { <<h, i>> \in Hosts \X (1..Cardinality(Trackers)) :
      i <= Len(hosts[h].chain) /\ hosts[h].chain[i] = t }

\* C5 as stated: the wrapper returns the resolved value it was called with,
\* whether or not a handler existed before attach.
C5_ReturnsResolvedValue ==
  (last.op = "translate" /\ Intercepted(last.h)) => last.ret = last.v

\* C5: the wrapper returns the resolved value unchanged when it found no
\* handler on the instance at attach, and otherwise exactly what that handler
\* returns for the resolved value; tracking never changes the value.
C5_ReturnsHandlerResult ==
  (last.op = "translate" /\ Intercepted(last.h)) =>
     /\ ~last.threw
     /\ hosts[last.h].base = "none" => last.ret = last.v
     /\ hosts[last.h].base # "none" => last.ret = ApplyHandler(hosts[last.h].base, last.v)

C5_Witness ==
  /\ last.op = "translate"
  /\ Intercepted(last.h)
  /\ hosts[last.h].base = "uppercase"
  /\ last.v = Str("Hello John!")
  /\ last.ret = Str("HELLO JOHN!")

\* C6: if the instance had a post-translation handler before attach, every
\* translation call after attach invokes that handler exactly once, with the
\* same resolved value and key, after the tracking steps.
C6_HookChaining ==
  (last.op = "translate" /\ Intercepted(last.h) /\ hosts[last.h].orig # "none") =>
     /\ Cardinality(ExistingEvents(last.ev)) = 1
     /\ last.ev[Len(last.ev)] = [e |-> "existing", t |-> "-", v |-> last.v, k |-> last.k]

\* C7: attach on an attached tracker, with the same or another instance,
\* installs nothing and changes nothing; a tracker's wrapper is installed at
\* most once, so a translation call with a string value runs exactly one
\* tracking step for each tracker whose wrapper the instance holds.
C7_AttachIdempotent ==
  /\ [](\A t \in Trackers : Cardinality(ChainPlaces(t)) <= 1)
  /\ [](last.op = "translate" =>
          \A t \in Trackers :
            Cardinality(TrackEvents(last.ev, t)) =
              IF InChain(t, last.h) /\ last.v.t = "str" THEN 1 ELSE 0)
  /\ [][\A t \in Trackers, h \in Hosts :
          trackers[t].attached /\ Attach(t, h) =>
            /\ hosts' = hosts
            /\ trackers' = trackers
            /\ memoryMap' = memoryMap
            /\ curLang' = curLang]_vars

C7_Witness ==
  /\ last.op = "attach"
  /\ last.out = "already"
  /\ getGlobalInstance(hosts[last.h])
  /\ ~InChain(last.t, last.h)
  /\ \E h \in Hosts : InChain(last.t, h)

\* C8: the index holds at most one entry per text value, and the key set of
\* the entry for a value is exactly the set of keys tracked with that value
\* since the entry was created.
C8_DedupByValue ==
  /\ \A i, j \in 1..Len(memoryMap.entries) :
       memoryMap.entries[i].value = memoryMap.entries[j].value => i = j
  /\ \A i \in 1..Len(memoryMap.entries) :
       memoryMap.entries[i].ids = { p[2] : p \in { q \in hist : q[1] = memoryMap.entries[i].value } }
  /\ \A p \in hist : p[1] \in ValuesOf(memoryMap)

C8_Witness ==
  /\ last.op = "trackTranslation"
  /\ last.v.s \in ValuesOf(memoryMap)
  /\ EntryOf(memoryMap, last.v.s).ids = DirectKeys
  /\ Len(memoryMap.entries) = 1

\* C9: after trackTranslation the entry's variables are the call's variables
\* when those are non-empty and otherwise the variables the entry had before;
\* no entry carries an empty variables map.
C9_VariableMerge ==
  /\ [](\A i \in 1..Len(memoryMap.entries) :
          memoryMap.entries[i].vars.present => memoryMap.entries[i].vars.m # {})
  /\ [][\A v \in DirectValues, k \in DirectKeys : \A x \in VarChoices(v) :
          HasMap(memoryMap) /\ last'.vars = x /\ TrackTranslationCall(v, k, "en", x) =>
            /\ v \in ValuesOf(memoryMap')
            /\ EntryOf(memoryMap', v).vars =
                 IF x.present /\ x.m # {} THEN x
                 ELSE IF v \in ValuesOf(memoryMap) THEN EntryOf(memoryMap, v).vars
                 ELSE NoVars]_vars

C9_Witness ==
  /\ last.op = "trackTranslation"
  /\ last.vars = NoVars
  /\ last.v.s \in ValuesOf(memoryMap)
  /\ EntryOf(memoryMap, last.v.s).vars = JohnVars
  /\ EntryOf(memoryMap, last.v.s).ts = 2

\* C10: cleanupMemoryMap(N) leaves an index of size S <= N unchanged; for
\* S > N exactly N entries remain, unmodified and in their order, and every
\* removed entry comes before every retained one in ascending trackedAt order
\* with ties broken by insertion order.
C10_Cleanup ==
  [][\A n \in 0..MaxN :
       CleanupCall(n) /\ HasMap(memoryMap) =>
         LET old == memoryMap.entries
             new == memoryMap'.entries
             kept == { i \in 1..Len(old) : old[i].value \in ValuesOf(memoryMap') }
         IN IF Len(old) <= n THEN memoryMap' = memoryMap
            ELSE /\ Len(new) = n
                 /\ memoryMap'.ref = memoryMap.ref
                 /\ new = SelectSeq(old, LAMBDA e : e.value \in ValuesOf(memoryMap'))
                 /\ \A i \in (1..Len(old)) \ kept, j \in kept :
                      \/ old[i].ts < old[j].ts
                      \/ old[i].ts = old[j].ts /\ i < j]_vars

C10_Witness ==
  /\ last.op = "cleanupMemoryMap"
  /\ last.out = "evicted"
  /\ Len(memoryMap.entries) = 1
  /\ memoryMap.entries[1].value = "Value B"

\* C11: the refresh callback removes every entry of the reverse index and
\* leaves the index object in the slot the same object.
C11_RefreshClears ==
  [][Refresh =>
       /\ memoryMap.ref # 0
       /\ memoryMap'.ref = memoryMap.ref
       /\ memoryMap'.entries = <<>>]_vars

C11_Witness ==
  /\ last.op = "refresh"
  /\ last.out = "cleared"
  /\ memoryMap.ref = 1
  /\ memoryMap.entries = <<>>

\* what detectLiveEditorMode has to return in the execution context env
ExpectedLive(forced) ==
  \/ forced
  \/ env.browser /\ ~env.topThrows /\ env.inIframe /\ env.hasMarker

\* C12: the reverse index is created at most once per page: once the slot
\* holds an index no operation replaces or removes it, initializeMemoryMap on
\* a set slot changes nothing, and the first live tracker constructed in a
\* browser allocates an empty index.
C12_IndexCreatedOnce ==
  [][/\ memoryMap.ref # 0 => memoryMap'.ref = memoryMap.ref
     /\ InitializeCall /\ memoryMap.ref # 0 => memoryMap' = memoryMap
     /\ InitializeCall /\ memoryMap.ref = 0 /\ isBrowser =>
          memoryMap' = [ref |-> 1, entries |-> <<>>]
     /\ \A t \in Trackers, f \in BOOLEAN :
          Construct(t, f, MaxN) /\ memoryMap.ref # 0 => memoryMap' = memoryMap]_vars

C12_Witness ==
  /\ last.op = "construct"
  /\ \A t \in Trackers : trackers[t].made /\ trackers[t].live
  /\ memoryMap.ref = 1
  /\ memoryMap.entries # <<>>

\* C14: detectLiveEditorMode returns true when forced; otherwise it returns
\* true exactly in a browser context that is embedded and carries the marker
\* parameter; when reading the top-level window fails it returns false.  A
\* constructed tracker's live flag is that result.
C14_DetectLiveEditorMode ==
  /\ last.op = "detectLiveEditorMode" =>
       (last.out = "true" <=> ExpectedLive(last.arg = "force"))
  /\ last.op = "detectLiveEditorMode" => last.out \in {"true", "false"}
  /\ last.op = "construct" =>
       (trackers[last.t].live <=> ExpectedLive(last.arg = "force"))

C14_Witness ==
  /\ last.op = "detectLiveEditorMode"
  /\ last.arg = "detect"
  /\ env.browser /\ env.inIframe /\ env.hasMarker /\ env.topThrows
  /\ last.out = "false"

\* C15 as stated: a tracker constructed with forceLiveMode is live, and when
\* the constructor returns the index slot is initialized and the refresh
\* callback slot holds this tracker's callback, in every execution context.
C15_ForcedLiveInitializesEverywhere ==
  [][\A t \in Trackers :
       Construct(t, TRUE, MaxN) =>
         /\ trackers'[t].live
         /\ memoryMap'.ref # 0
         /\ refreshFn' = t]_vars

\* C15: a tracker constructed with forceLiveMode is live in every execution
\* context; where a window exists the index slot is initialized and the
\* refresh callback slot holds this tracker's callback when the constructor
\* returns, and where no window exists both slots stay as they were.
C15_ForcedLiveInitializes ==
  [][\A t \in Trackers :
       Construct(t, TRUE, MaxN) =>
         /\ trackers'[t].live
         /\ isBrowser => memoryMap'.ref # 0 /\ refreshFn' = t
         /\ ~isBrowser => memoryMap' = memoryMap /\ refreshFn' = refreshFn]_vars

C15_Witness ==
  /\ last.op = "construct"
  /\ last.arg = "force"
  /\ env.browser /\ ~env.inIframe /\ ~env.hasMarker
  /\ trackers[last.t].live
  /\ memoryMap.ref = 1
  /\ refreshFn = last.t

\* C16: constructing a tracker that turns out not live, and attach on a
\* tracker that is not live, leave the instances' handlers, the refresh
\* callback slot, the current-language slot and the script load untouched, and
\* the tracker stays unattached.
C16_ZeroOverhead ==
  [][\A t \in Trackers :
       /\ \A f \in BOOLEAN :
            Construct(t, f, MaxN) /\ ~trackers'[t].live =>
              /\ hosts' = hosts
              /\ refreshFn' = refreshFn
              /\ curLang' = curLang
              /\ liveEditorScript' = liveEditorScript
              /\ ~trackers'[t].attached
       /\ \A h \in Hosts :
            Attach(t, h) /\ ~trackers[t].live =>
              /\ hosts' = hosts
              /\ refreshFn' = refreshFn
              /\ curLang' = curLang
              /\ liveEditorScript' = liveEditorScript
              /\ ~trackers'[t].attached]_vars

C16_Witness ==
  /\ last.op = "attach"
  /\ last.out = "notlive"
  /\ env.browser
  /\ hosts[last.h].shape = "composer"
  /\ hosts[last.h].chain = <<>>
  /\ refreshFn = "undef"
  /\ liveEditorScript = NoScript
  /\ curLang = "undef"

\* C13: trackTranslation and cleanupMemoryMap called while the index slot is
\* not set raise nothing, create no index and leave the index slot and the
\* current-language slot as they are.
C13_UninitializedNoOp ==
  [][/\ \A v \in DirectValues, k \in DirectKeys : \A x \in VarChoices(v) :
          memoryMap.ref = 0 /\ TrackTranslationCall(v, k, "en", x) =>
            memoryMap' = memoryMap /\ curLang' = curLang /\ ~last'.threw
     /\ \A n \in 0..MaxN :
          memoryMap.ref = 0 /\ CleanupCall(n) =>
            memoryMap' = memoryMap /\ curLang' = curLang /\ ~last'.threw]_vars

C13_Witness ==
  /\ last.op = "trackTranslation"
  /\ last.vars = JohnVars
  /\ env.browser
  /\ memoryMap = [ref |-> 0, entries |-> <<>>]
  /\ ~last.threw

\* a step in which a tracker is attached: attach called directly,
\* attachContentstorageTracker or createContentstorageI18n
AttachStep ==
  \/ \E t \in Trackers, h \in Hosts : Attach(t, h)
  \/ \E t \in Trackers, h \in Hosts, f \in BOOLEAN :
       AttachContentstorageTracker(t, h, f, MaxN)
  \/ \E t \in Trackers, h \in Hosts, f \in BOOLEAN, pl \in PreloadOptions :
       CreateContentstorageI18n(t, h, TRUE, FALSE, f, 0, pl, Undefined)

\* a step of a translation call, of trackMessages (called directly or by a
\* loadLanguage that resumes) or of preloadMessages
TrackingStep ==
  \/ \E h \in Hosts, v \in CallValues, k \in CallKeys : Translate(h, v, k)
  \/ \E t \in Trackers : TrackMessages(t, TreeAB, "en", 2)
  \/ \E t \in Trackers, i \in {0, 2} : PreloadMessages(t, "H1", i)
  \/ ResumeLoadLanguage

\* C17: attach adds no entry to the reverse index, whatever messages the
\* instance holds and whichever way it is called (attach directly,
\* attachContentstorageTracker, createContentstorageI18n): the entries of the
\* index are the same before and after the step, so a fresh index has size 0
\* after it; and a step that puts a new value into the index is a translation
\* call, a trackMessages or a preloadMessages.
C17_GradualPopulation ==
  [][/\ AttachStep => /\ memoryMap'.entries = memoryMap.entries
                       /\ memoryMap.entries = <<>> => Len(memoryMap'.entries) = 0
     /\ ValuesOf(memoryMap') \ ValuesOf(memoryMap) # {} => TrackingStep]_vars

C17_Witness ==
  /\ i18n.made
  /\ i18n.host = "H1"
  /\ trackers[i18n.tracker].attached
  /\ hosts["H1"].msgs = FullMessages
  /\ hosts["H1"].chain = <<i18n.tracker>>
  /\ last.op = "attach"
  /\ last.out = "attached"
  /\ last.t # i18n.tracker
  /\ hosts[last.h].chain = <<last.t>>
  /\ memoryMap = [ref |-> 1, entries |-> <<>>]

\* the leaves of a message tree, each with its dot-separated path
RECURSIVE LeavesOf(_, _)
LeavesOf(node, path) ==
  IF node.t = "obj"
  THEN UNION { LeavesOf(node.c[i][2],
                        IF path = <<>> THEN node.c[i][1]
                        ELSE path \o <<".">> \o node.c[i][1]) : i \in 1..Len(node.c) }
  ELSE { <<path, node>> }

\* <<path, text>> of the string leaves, and of those whose text is not empty
StringLeaves(tree) ==
  { <<p[1], p[2].s>> : p \in { q \in LeavesOf(tree, <<>>) : q[2].t = "str" } }
TextLeaves(tree) == { p \in StringLeaves(tree) : p[2] # "" }
TextsOf(tree) == { p[2] : p \in TextLeaves(tree) }

\* after the step the index has an entry for text s with key p and language l
HasEntryAfter(s, p, l) ==
  /\ s \in ValuesOf(memoryMap')
  /\ p \in EntryOf(memoryMap', s).ids
  /\ EntryOf(memoryMap', s).lang = l

\* C18: after trackMessages(messages, language) of a live tracker in a browser
\* context whose maximum is at least the number of leaves, every leaf with a
\* non-empty string s at path p has an entry for s with p among its keys and
\* the given language, and no entry exists for a leaf that is not a string.
C18_TrackMessagesKeepsLeaves ==
  [][\A t \in Trackers, tree \in BulkTrees, l \in Locales, i \in 0..2 :
       /\ TrackMessages(t, tree, l, i)
       /\ trackers[t].live
       /\ HasMap(memoryMap)
       /\ trackers[t].max >= Cardinality(LeavesOf(tree, <<>>))
       => /\ \A p \in TextLeaves(tree) : HasEntryAfter(p[2], p[1], l)
          /\ ValuesOf(memoryMap') \subseteq ValuesOf(memoryMap) \cup TextsOf(tree)]_vars

\* the message tree instance h holds for its active locale; the empty tree when
\* the instance has no global instance, no messages for the locale, or its
\* message store cannot be read
ActiveLocaleTree(h) ==
  IF hosts[h].shape \in {"composer", "legacy"} /\ hosts[h].msgs[hosts[h].locale].present
  THEN hosts[h].msgs[hosts[h].locale].tree
  ELSE TreeEmpty

\* C19 as stated: preloadMessages(instance) of a live tracker tracks every
\* leaf string of the instance's active-locale message tree (the empty string
\* included, with or without a window) under its path with the locale as
\* language; of a tracker that is not live it changes nothing.
C19_PreloadTracksEveryLeaf ==
  [][\A t \in Trackers, h \in Hosts, i \in 0..1 :
       PreloadMessages(t, h, i) =>
         /\ trackers[t].live =>
              \A p \in StringLeaves(ActiveLocaleTree(h)) :
                HasEntryAfter(p[2], p[1], hosts[h].locale)
         /\ ~trackers[t].live => memoryMap' = memoryMap]_vars

\* C19: preloadMessages(instance) of a live tracker whose index exists tracks
\* every non-empty leaf string of the instance's active-locale message tree:
\* when it returns the index has an entry for each with its path among the
\* keys, the locale as language and the time of the call, and the index holds
\* the texts it held before and these; of a tracker that is not live it
\* changes nothing.
C19_PreloadTracksTextLeaves ==
  [][\A t \in Trackers, h \in Hosts, i \in 0..1 :
       PreloadMessages(t, h, i) =>
         /\ trackers[t].live /\ memoryMap.ref # 0 =>
              /\ \A p \in TextLeaves(ActiveLocaleTree(h)) :
                   /\ HasEntryAfter(p[2], p[1], hosts[h].locale)
                   /\ EntryOf(memoryMap', p[2]).ts \in {now, now'}
              /\ ValuesOf(memoryMap') = ValuesOf(memoryMap) \cup TextsOf(ActiveLocaleTree(h))
         /\ ~trackers[t].live =>
              memoryMap' = memoryMap /\ curLang' = curLang /\ hosts' = hosts]_vars

C19_Witness ==
  /\ last.op = "preloadMessages"
  /\ trackers[last.t].live
  /\ hosts["H1"].locale = "fr"
  /\ "Bonjour {name}!" \in ValuesOf(memoryMap)
  /\ EntryOf(memoryMap, "Bonjour {name}!").ids = { <<"n", ".", "t">> }
  /\ EntryOf(memoryMap, "Bonjour {name}!").lang = "fr"
  /\ EntryOf(memoryMap, "Bonjour {name}!").ts = now

\* C20: preloadMessages() without argument on a live, attached tracker tracks
\* every non-empty leaf string of the active-locale message tree of the
\* instance the tracker is attached to.
C20_PreloadUsesAttachedInstance ==
  [][\A t \in Trackers, h \in Hosts :
       /\ PreloadMessages(t, "-", 0)
       /\ trackers[t].live
       /\ trackers[t].attached
       /\ InChain(t, h)
       /\ memoryMap.ref # 0
       => \A p \in TextLeaves(ActiveLocaleTree(h)) :
            HasEntryAfter(p[2], p[1], hosts[h].locale)]_vars

\* the steps that call loadLiveEditorScript: a direct call, and the
\* constructor of a tracker that is live (forced or by detection, whatever
\* its other options), run on its own or by createContentstorageI18n
CallsLoadScript ==
  \/ \E r \in 0..MaxRetries : LoadScriptCall(r)
  \/ /\ last'.op \in {"construct", "attachContentstorageTracker", "createContentstorageI18n"}
     /\ ~trackers[last'.t].made
     /\ trackers'[last'.t].made
     /\ trackers'[last'.t].live

\* C21 as stated: loadLiveEditorScript is memoized for the life of the page:
\* one promise and at most one load sequence ever, and a call made when a
\* promise has been created (pending, or resolved with true or false) creates
\* no script element.
C21_ScriptLoadMemoizedForever ==
  /\ [](liveEditorScript.pid <= 1 /\ liveEditorScript.seqs <= 1)
  /\ [](last.op = "loadLiveEditorScript" => last.out = "p1")
  /\ [][CallsLoadScript /\ liveEditorScript.pid >= 1 =>
          liveEditorScript'.created = liveEditorScript.created]_vars

\* C21: loadLiveEditorScript is memoized until resetLiveEditorScript() is
\* called: while the slot holds a promise (pending, or resolved with true or
\* false) every call returns that promise and changes nothing, so it creates
\* no script element and starts no load sequence; a promise is created, and a
\* load sequence started, only by a call that finds the slot empty, which it
\* is before the first call and after a reset, so there are at most as many
\* promises and sequences as resets plus one; the slot is emptied only by
\* resetLiveEditorScript.  Script elements are created only by a call that
\* finds the slot empty and by the retry timer of a sequence.
C21_ScriptLoadMemoized ==
  /\ [](/\ liveEditorScript.pid <= liveEditorScript.resets + 1
        /\ liveEditorScript.seqs <= liveEditorScript.pid)
  /\ [](liveEditorScript.resets = 0 /\ last.op = "loadLiveEditorScript" => last.out = "p1")
  /\ [][/\ CallsLoadScript /\ liveEditorScript.promise # "null" =>
             liveEditorScript' = liveEditorScript
        /\ liveEditorScript'.pid # liveEditorScript.pid =>
             /\ liveEditorScript.promise = "null"
             /\ CallsLoadScript
             /\ liveEditorScript'.pid = liveEditorScript.pid + 1
        /\ liveEditorScript.promise # "null" /\ liveEditorScript'.promise = "null" =>
             ResetScriptCall
        /\ liveEditorScript'.created # liveEditorScript.created =>
             \/ liveEditorScript.promise = "null" /\ CallsLoadScript
             \/ RetryTimer]_vars

C21_Witness ==
  /\ last.op = "loadLiveEditorScript"
  /\ last.n = 3
  /\ last.out = "other"
  /\ \A t \in Trackers : trackers[t].made /\ trackers[t].live
  /\ liveEditorScript.resets = 1
  /\ liveEditorScript.promise = "false"
  /\ liveEditorScript.retries = 2
  /\ liveEditorScript.created = 3
  /\ liveEditorScript.inDocument = 1
  /\ liveEditorScript.pid = 2
  /\ liveEditorScript.seqs = 2
  /\ Len(liveEditorScript.orphans) = 1

\* the number of attempts a load sequence with this retries argument makes
\* before it gives up
AttemptsAllowed(retries) == IF retries > 1 THEN retries ELSE 1

\* what C22 says of one load sequence q and its promise
PromiseOfSequence(q) ==
  /\ q.promise \in {"pending", "true", "false"}
  /\ q.promise = "true" <=> q.el = "loaded"
  /\ q.promise = "false" =>
       q.attempt = AttemptsAllowed(q.retries) /\ q.el = "none" /\ ~q.timer
  /\ q.promise = "pending" =>
       /\ Running(q)
       /\ q.attempt <= AttemptsAllowed(q.retries)
       /\ q.timer => q.attempt < AttemptsAllowed(q.retries)

\* C22: a promise of loadLiveEditorScript is never rejected and settles at
\* most once.  It resolves true exactly when a script element of its load
\* sequence has loaded, in the step of that load event; it resolves false at
\* once where no window exists, and in a browser only in the step in which
\* the last attempt the retries argument allows has failed, all attempts
\* before it having failed.  This holds of the promise in the slot and of a
\* promise that resetLiveEditorScript has taken out of it.
C22_ScriptPromise ==
  /\ [](liveEditorScript.promise # "rejected"
          /\ liveEditorScript.settles <= liveEditorScript.pid)
  /\ [](liveEditorScript.promise # "null" /\ isBrowser =>
          PromiseOfSequence(SeqOf(liveEditorScript)))
  /\ [](liveEditorScript.resets = 0 /\ liveEditorScript.promise = "false" /\ isBrowser =>
          /\ liveEditorScript.failed = AttemptsAllowed(liveEditorScript.retries)
          /\ liveEditorScript.failed = liveEditorScript.created
          /\ liveEditorScript.inDocument = 0)
  /\ [](\A i \in 1..Len(liveEditorScript.orphans) :
          /\ isBrowser
          /\ liveEditorScript.orphans[i].promise = "pending"
          /\ PromiseOfSequence(liveEditorScript.orphans[i]))
  /\ [](last.op \in {"onload", "onerror", "retry"} =>
          /\ PromiseOfSequence(last.ev[1])
          /\ last.ev[1].promise = "true" => last.op = "onload"
          /\ last.ev[1].promise = "false" =>
               last.op = "onerror" /\ last.n = AttemptsAllowed(last.ev[1].retries))
  /\ [](liveEditorScript.promise # "null" /\ ~isBrowser =>
          liveEditorScript.promise = "false" /\ liveEditorScript.created = 0)
  /\ [][/\ liveEditorScript.promise \in {"true", "false"} =>
             \/ liveEditorScript'.promise = liveEditorScript.promise
             \/ ResetScriptCall /\ liveEditorScript'.promise = "null"
        /\ liveEditorScript'.settles # liveEditorScript.settles =>
             /\ liveEditorScript'.settles = liveEditorScript.settles + 1
             /\ \/ ScriptOnload \/ ScriptOnerror
                \/ CallsLoadScript /\ ~isBrowser /\ liveEditorScript.promise = "null"
        /\ ScriptOnload =>
             /\ last'.ev[1].promise = "true"
             /\ liveEditorScript'.settles = liveEditorScript.settles + 1
             /\ last'.arg = "slot" => liveEditorScript'.promise = "true"]_vars

C22_Witness ==
  /\ last.op = "onload"
  /\ last.n = 3
  /\ last.arg = "orphan"
  /\ last.ev[1].promise = "true"
  /\ last.ev[1].retries = 3
  /\ liveEditorScript.promise = "false"
  /\ liveEditorScript.pid = 2
  /\ liveEditorScript.settles = 2
  /\ liveEditorScript.inDocument = 1

\* C23: loadLanguage on an instance created with neither contentKey nor
\* enableCdnLoading (with or without a loadPath) fails with the error that names the two settings, issues
\* no request, sets no messages on the host instance and leaves the loader, the
\* reverse index and the current-language slot as they are; such an instance
\* has no loader.
C23_LoadLanguageWithoutLoader ==
  /\ [](i18n.made /\ ~i18n.contentKey /\ ~i18n.enableCdnLoading =>
          ~i18n.hasLoader /\ ~loader.made /\ pending = <<>> /\ loader.fetched = 0)
  /\ [][\A l \in Locales :
          LoadLanguageCall(l) /\ ~i18n.contentKey /\ ~i18n.enableCdnLoading =>
            /\ last'.threw
            /\ last'.out = "CDN loading not enabled. Set contentKey or enableCdnLoading"
            /\ pending' = pending
            /\ loader' = loader
            /\ hosts' = hosts
            /\ memoryMap' = memoryMap
            /\ curLang' = curLang]_vars

C23_Witness ==
  /\ last.op = "loadLanguage"
  /\ last.arg = "fr"
  /\ last.threw
  /\ last.out = "CDN loading not enabled. Set contentKey or enableCdnLoading"
  /\ i18n.made /\ ~i18n.contentKey /\ ~i18n.enableCdnLoading
  /\ i18n.loadPath = LoadPathTemplate
  /\ trackers[i18n.tracker].live /\ trackers[i18n.tracker].attached
  /\ memoryMap = [ref |-> 1, entries |-> <<>>]
  /\ hosts[i18n.host].msgs = FullMessages

\* the step in which a loadLanguage(l) call (made by the application or for
\* preloadLanguages) resumes with the translations its loadTranslations has
\* returned, from the response to its request or from the cache
LoadLanguageGets(l, tree) ==
  /\ Resuming(pending) # <<>>
  /\ Resuming(pending)[1].language = l
  /\ Resuming(pending)[1].tree = tree
  /\ ResumeLoadLanguage

\* the host's message tree for l is the loaded tree, set before the tracker
\* was asked to track it; active locale and current-language slot are kept
SetThenTracked(l, tree) ==
  /\ hosts'[i18n.host].msgs[l] = Messages(tree)
  /\ \A k \in Locales \ {l} : hosts'[i18n.host].msgs[k] = hosts[i18n.host].msgs[k]
  /\ Len(last'.ev) = 2
  /\ last'.ev[1].e = "setLocaleMessage" /\ last'.ev[1].v = tree
  /\ last'.ev[2].e = "trackMessages" /\ last'.ev[2].v = tree
  /\ hosts'[i18n.host].locale = hosts[i18n.host].locale
  /\ curLang' = curLang

\* text s of the loaded tree has its entry after the step, or the index is
\* full at the tracker's maximum
EntryOrSizeBound(s, key, l) ==
  \/ HasEntryAfter(s, key, l)
  \/ /\ trackers[i18n.tracker].max # 0
     /\ Len(memoryMap'.entries) = trackers[i18n.tracker].max

\* C24 as stated: a successful loadLanguage(L) sets the loaded tree as the
\* host's messages for L, then tracks it; in live mode, in any execution
\* context, every non-empty leaf string of the tree is an index entry
\* afterwards unless the size bound removed it; the active locale and the
\* current-language slot are unchanged.
C24_LoadLanguageTracksEverywhere ==
  [][\A l \in Locales, tree \in CdnTrees :
       LoadLanguageGets(l, tree) =>
         /\ SetThenTracked(l, tree)
         /\ trackers[i18n.tracker].live =>
              \A p \in TextLeaves(tree) : EntryOrSizeBound(p[2], p[1], l)]_vars

\* C24: a successful loadLanguage(L) sets the loaded tree as the host's
\* messages for L, then tracks it with language L; with a live tracker and an
\* existing index every non-empty leaf string of the tree is an index entry
\* with its path and L afterwards unless the size bound removed it, and no
\* other text gets an entry; where no index exists (a tracker forced live
\* without a window) nothing is tracked; the active locale and the
\* current-language slot are unchanged.
C24_LoadLanguageSetsThenTracks ==
  [][\A l \in Locales, tree \in CdnTrees :
       LoadLanguageGets(l, tree) =>
         /\ SetThenTracked(l, tree)
         /\ trackers[i18n.tracker].live /\ HasMap(memoryMap) =>
              /\ \A p \in TextLeaves(tree) : EntryOrSizeBound(p[2], p[1], l)
              /\ ValuesOf(memoryMap') \subseteq ValuesOf(memoryMap) \cup TextsOf(tree)
         /\ ~HasMap(memoryMap) => memoryMap' = memoryMap]_vars

C24_Witness ==
  /\ last.op = "loadLanguage"
  /\ last.out = "loaded"
  /\ last.arg = "en"
  /\ last.ret = TreeAB
  /\ hosts[i18n.host].msgs["en"] = Messages(TreeAB)
  /\ hosts[i18n.host].locale = "fr"
  /\ curLang = "en"
  /\ trackers[i18n.tracker].live
  /\ ValuesOf(memoryMap) = {"Hello John!", "Hello {name}!"}
  /\ EntryOf(memoryMap, "Hello John!").ids = { <<"e">> }
  /\ EntryOf(memoryMap, "Hello John!").lang = "en"

\* C25 as stated: once a load of L has succeeded the cache entry of L stays
\* what that load stored until clearCache(L) or clearCache(), and every
\* loadTranslations(L) in between returns it without a request.
C25_CacheKeepsFirstSuccess ==
  [][\A l \in Locales :
       /\ LoadTranslationsCall(l) /\ loader.cache[l].present =>
            /\ last'.ret = loader.cache[l].tree
            /\ loader'.fetched = loader.fetched
       /\ loader.cache[l].present /\ loader'.cache[l] # loader.cache[l] =>
            ClearCacheCall(l) \/ ClearCacheCall("")]_vars

\* the cache of the loader holds translations for l that a condition takes
\* for present: an entry whose value is not null and not the empty string
HoldsTranslations(l) ==
  loader.cache[l].present /\ loader.cache[l].tree \notin FalsyAnswers

\* C25: the loader's cache.  A loadTranslations(L) call made while the cache
\* holds translations for L (an object) returns them and issues no request
\* (so does the loadTranslations inside loadLanguage, which then waits to
\* resume with them); an answer that is null or an empty string is stored
\* like any other but never served from the cache: the next call for L
\* requests again.  The cache entry of L is exactly what the last successful
\* load of L to complete has stored and stays until clearCache(L) or
\* clearCache(); a failed load leaves the cache as it is and its error reaches
\* the caller; clearCache(L) removes the entry of L and no other, clearCache()
\* removes all.
C25_LoaderCache ==
  [][/\ \A l \in Locales :
          LoadTranslationsCall(l) /\ HoldsTranslations(l) =>
            /\ last'.out = "cached"
            /\ last'.ret = loader.cache[l].tree
            /\ ~last'.threw
            /\ loader' = loader
            /\ pending' = pending
     /\ \A l \in Locales :
          LoadLanguageCall(l) /\ i18n.hasLoader /\ HoldsTranslations(l) =>
            /\ last'.ret = loader.cache[l].tree
            /\ loader' = loader
            /\ Len(pending') = Len(pending) + 1
            /\ SubSeq(pending', 1, Len(pending)) = pending
            /\ pending'[Len(pending')].stage = "resume"
            /\ pending'[Len(pending')].tree = loader.cache[l].tree
     /\ \A l \in Locales :
          /\ LoadTranslationsCall(l)
          /\ loader.cache[l].present /\ loader.cache[l].tree \in FalsyAnswers
          /\ loader.contentKey \/ loader.loadPath # Undefined
          => /\ last'.out = "requested"
             /\ loader'.fetched = loader.fetched + 1
             /\ loader'.cache = loader.cache
             /\ Len(pending') = Len(pending) + 1
     /\ \A l \in Locales :
          loader'.cache[l] # loader.cache[l] =>
            \/ \E i \in 1..MaxPending, tree \in CdnAnswers :
                 /\ Respond(i, TRUE, tree)
                 /\ pending[i].language = l
                 /\ loader'.cache[l] = Messages(tree)
                 /\ last'.ret = tree
            \/ ClearCacheCall(l) /\ ~loader'.cache[l].present
            \/ ClearCacheCall("") /\ ~loader'.cache[l].present
     /\ \A i \in 1..MaxPending, tree \in CdnAnswers :
          Respond(i, TRUE, tree) => loader'.cache[pending[i].language] = Messages(tree)
     /\ \A i \in 1..MaxPending, tree \in CdnAnswers :
          Respond(i, FALSE, tree) =>
            /\ loader' = loader
            /\ last'.out = "Failed to load translations"
            /\ pending[i].caller \in {"loadTranslations", "loadLanguage"} => last'.threw
     /\ \A l \in Locales :
          ClearCacheCall(l) =>
            /\ ~loader'.cache[l].present
            /\ \A k \in Locales \ {l} : loader'.cache[k] = loader.cache[k]
     /\ ClearCacheCall("") => \A k \in Locales : ~loader'.cache[k].present
     /\ loader'.fetched # loader.fetched =>
          \E l \in Locales :
            /\ ~HoldsTranslations(l)
            /\ \/ LoadTranslationsCall(l) \/ LoadLanguageCall(l)
               \/ last'.op = "createContentstorageI18n"]_vars

C25_Witness ==
  /\ last.op = "loadTranslations"
  /\ last.out = "cached"
  /\ last.arg = "en"
  /\ last.ret = TreeAB
  /\ loader.cache["en"] = Messages(TreeAB)
  /\ loader.cache["fr"] = Messages(Null)
  /\ loader.loadPath = LoadPathTemplate
  /\ ~loader.contentKey
  /\ loader.fetched = 2
  /\ pending = <<>>

\* the pairs of a list as a set
PairsOf(list) == { list[i] : i \in 1..Len(list) }

\* the tree whose properties flattenTranslations walks: the object itself,
\* or the elements of an array given as the argument, named by their indices
WalkedTree(node) == Obj(node.c)

\* C26: flattenTranslations of a tree yields one <<dot-path, value>> pair
\* for each string leaf of the tree (the empty string included), the path
\* being the property names from the root joined by '.', and no other pair;
\* leaves that are numbers, arrays or null yield nothing, whatever the array
\* holds; an input that is null, undefined, a string or a number yields the
\* empty list.  (An array given as the input itself is an object to the
\* code: it is the root of the tree, its elements the properties "0", "1", ...)
C26_FlattenTranslations ==
  last.op = "flattenTranslations" =>
    IF last.v.t \in {"obj", "arr"}
    THEN /\ PairsOf(last.ev) = StringLeaves(WalkedTree(last.v))
         /\ Len(last.ev) = Cardinality(StringLeaves(WalkedTree(last.v)))
    ELSE last.ev = <<>>

C26_Witness ==
  /\ last.op = "flattenTranslations"
  /\ last.v = Obj(<< <<<<"a">>, Obj(<< <<<<"b">>, Str("Hi")>>, <<<<"a">>, ArrOf(<<Str("Yo")>>)>> >>)>>,
                     <<<<"b">>, Str("")>> >>)
  /\ last.ev = << << <<"a", ".", "b">>, "Hi" >>, << <<"b">>, "" >> >>

\* C27: the refresh callback leaves the trackers (live and attached flags)
\* and the wrappers on the instances as they are and keeps the index object;
\* the first intercepted translation call with a string value after a refresh
\* tracks its text into that same index: the entry is there afterwards with the
\* key and the time of the call.
C27_TrackingSurvivesRefresh ==
  [][/\ Refresh =>
          /\ trackers' = trackers
          /\ hosts' = hosts
          /\ refreshFn' = refreshFn
          /\ memoryMap'.ref = memoryMap.ref
     /\ \A h \in Hosts, v \in StringCallValues, k \in CallKeys :
          Translate(h, v, k) /\ Intercepted(h) /\ last.op = "refresh" =>
            LET text == TemplateOf(RawTemplate(h, k), v.s)
            IN /\ memoryMap.ref # 0
               /\ memoryMap.entries = <<>>
               /\ memoryMap'.ref = memoryMap.ref
               /\ ValuesOf(memoryMap') = {text}
               /\ EntryOf(memoryMap', text).ids = {k}
               /\ EntryOf(memoryMap', text).ts = now]_vars

C27_Witness ==
  /\ last.op = "translate"
  /\ last.after = "refresh"
  /\ last.v = Str("Hello John!")
  /\ last.k = <<"n", ".", "t">>
  /\ trackers["T1"].attached
  /\ InChain("T1", last.h)
  /\ memoryMap.ref = 1
  /\ ValuesOf(memoryMap) = {"Hello {name}!"}
  /\ EntryOf(memoryMap, "Hello {name}!").ids = { <<"n", ".", "t">> }
  /\ now = 2

\* tracker t's wrapper is on instance h after the step
InChainAfter(t, h) == \E i \in 1..Len(hosts'[h].chain) : hosts'[h].chain[i] = t

\* C28: a tracker's live flag never changes once the tracker is constructed;
\* its attached flag is false when the constructor returns, never goes back to
\* false, and goes from false to true only in an attach call of that tracker
\* that has installed the tracker's wrapper on the instance; in every reachable
\* state an attached tracker is live.
C28_TrackerLifecycle ==
  /\ [](\A t \in Trackers : trackers[t].attached => trackers[t].made /\ trackers[t].live)
  /\ [][\A t \in Trackers :
          /\ trackers[t].made => trackers'[t].made /\ trackers'[t].live = trackers[t].live
          /\ ~trackers[t].made /\ trackers'[t].made => ~trackers'[t].attached
          /\ trackers[t].attached => trackers'[t].attached
          /\ ~trackers[t].attached /\ trackers'[t].attached =>
               \E h \in Hosts :
                 /\ Attach(t, h)
                 /\ ~InChain(t, h)
                 /\ InChainAfter(t, h)]_vars

C28_Witness ==
  /\ last.op = "attach"
  /\ last.out = "attached"
  /\ last.t = "T2"
  /\ trackers["T2"].live /\ trackers["T2"].attached
  /\ InChain("T2", last.h)
  /\ trackers["T1"].made /\ ~trackers["T1"].live /\ ~trackers["T1"].attached
  /\ ~env.inIframe

\* C29: attach of a live, unattached tracker on an object without a global
\* instance logs the warning and returns: nothing is thrown, no instance gets a
\* wrapper, the current-language slot, the index and the tracker are as
\* before; attach of a live, unattached tracker on an instance that has a
\* global instance succeeds, also directly after such a failure.
C29_AttachFailure ==
  [][\A t \in Trackers, h \in Hosts :
       Attach(t, h) /\ trackers[t].live /\ ~trackers[t].attached =>
         IF hosts[h].shape = "noglobal"
         THEN /\ last'.out = "noglobal"
              /\ ~last'.threw
              /\ hosts' = hosts
              /\ curLang' = curLang
              /\ memoryMap' = memoryMap
              /\ trackers' = trackers
         ELSE /\ last'.out = "attached"
              /\ trackers'[t].attached
              /\ InChainAfter(t, h)]_vars

C29_Witness ==
  /\ last.op = "attach"
  /\ last.out = "attached"
  /\ last.after = "failed attach"
  /\ trackers[last.t].attached
  /\ InChain(last.t, "H1")
  /\ hosts["H2"].shape = "noglobal"
  /\ hosts["H2"].chain = <<>>

\* the trackers whose wrappers instance h holds
ChainTrackers(h) == { hosts[h].chain[i] : i \in 1..Len(hosts[h].chain) }

\* C30 as stated: every intercepted translation call, whatever the type of
\* the resolved value, sets the current-language slot to the instance's active
\* locale at that call and leaves the index within the maximum of the tracker
\* whose wrapper ran (a tracker with a maximum other than 0).
C30_EveryCallSetsLanguageAndEvicts ==
  [][\A h \in Hosts, v \in CallValues, k \in CallKeys :
       Translate(h, v, k) /\ Intercepted(h) /\ HasMap(memoryMap) =>
         /\ curLang' = hosts[h].locale
         /\ \A t \in ChainTrackers(h) :
              trackers[t].max # 0 => Len(memoryMap'.entries) <= trackers[t].max]_vars

\* C30: an intercepted translation call whose resolved value is a string
\* sets, where a window exists, the current-language slot to the instance's
\* active locale as it is at that call, tracks the text it recovers from that
\* locale's message tree with that locale as language, and runs eviction for
\* every tracker in the chain whose maximum is not 0 (with a maximum of 0 no
\* eviction runs); a call whose resolved value is not a string changes neither
\* the slot nor the index.
C30_StringCallSetsLanguage ==
  [][\A h \in Hosts, v \in CallValues, k \in CallKeys :
       Translate(h, v, k) /\ Intercepted(h) =>
         IF v.t = "str"
         THEN /\ isBrowser => curLang' = hosts[h].locale
              /\ ~isBrowser => curLang' = curLang /\ memoryMap' = memoryMap
              /\ HasMap(memoryMap) =>
                   LET text == TemplateOf(RawTemplate(h, k), v.s)
                   IN /\ text \in ValuesOf(memoryMap') =>
                           /\ k \in EntryOf(memoryMap', text).ids
                           /\ EntryOf(memoryMap', text).lang = hosts[h].locale
                      /\ \A t \in ChainTrackers(h) :
                           trackers[t].max # 0 => Len(memoryMap'.entries) <= trackers[t].max
                      /\ (\A t \in ChainTrackers(h) : trackers[t].max = 0) =>
                           /\ text \in ValuesOf(memoryMap')
                           /\ ValuesOf(memoryMap') = ValuesOf(memoryMap) \cup {text}
         ELSE curLang' = curLang /\ memoryMap' = memoryMap]_vars

C30_Witness ==
  /\ last.op = "translate"
  /\ last.v = Str("Hello John!")
  /\ last.k = <<"n", ".", "t">>
  /\ hosts[last.h].locale = "fr"
  /\ curLang = "fr"
  /\ ValuesOf(memoryMap) = {"Hello {name}!", "Bonjour {name}!"}
  /\ EntryOf(memoryMap, "Hello {name}!").lang = "en"
  /\ EntryOf(memoryMap, "Bonjour {name}!").lang = "fr"
  /\ EntryOf(memoryMap, "Bonjour {name}!").ids = { <<"n", ".", "t">> }

\* C31: an intercepted translation call whose resolved value is not a string
\* (an array) adds, changes and removes no index entry and leaves the
\* current-language slot alone; the value is passed once to the handler the
\* instance had before attach, and the host gets the value back.
C31_NonStringCall ==
  [][\A h \in Hosts, v \in CallValues \ StringCallValues, k \in CallKeys :
       Translate(h, v, k) /\ Intercepted(h) =>
         /\ memoryMap' = memoryMap
         /\ curLang' = curLang
         /\ ~last'.threw
         /\ last'.ret = v
         /\ hosts[h].orig # "none" =>
              /\ Cardinality(ExistingEvents(last'.ev)) = 1
              /\ last'.ev[Len(last'.ev)] = [e |-> "existing", t |-> "-", v |-> v, k |-> k]]_vars

\* C32: when preloadMessages(instance) returns on a live tracker with maximum
\* N, in a browser context, and the instance's active-locale message tree has
\* more than N distinct non-empty leaf strings, the index holds at most N
\* entries.
C32_PreloadSizeBound ==
  [][\A t \in Trackers, i \in 0..2 :
       /\ PreloadMessages(t, "H1", i)
       /\ trackers[t].live
       /\ HasMap(memoryMap)
       /\ Cardinality(TextsOf(ActiveLocaleTree("H1"))) > trackers[t].max
       => Len(memoryMap'.entries) <= trackers[t].max]_vars

\* C33: eviction is least-recently-tracked.  The value of the tracking call
\* that ran last has the latest tracking call of all entries, so an eviction
\* that runs right after that call and retains any entry retains the entry of
\* that value, also when the value was tracked before and when the calls read
\* the same clock value.
C33_LeastRecentlyTracked ==
  [][\A n \in 0..MaxN :
       /\ CleanupCall(n)
       /\ HasMap(memoryMap)
       /\ last.op = "trackTranslation"
       /\ memoryMap'.entries # <<>>
       => last.v.s \in ValuesOf(memoryMap')]_vars

\* C34 as stated: the retry protocol of the script load.  An element that
\* failed is removed from the document in the step of its error event, and
\* the next element is injected only by the retry timer that step scheduled,
\* so at most one injected element is in the document at any time; after the
\* first failed attempt at most `retries` retries are made; once the promise
\* has resolved no element is injected.
C34_OneElementAtAnyTime ==
  /\ [](liveEditorScript.inDocument <= 1)
  /\ [][ScriptOnerror =>
          /\ liveEditorScript'.inDocument = liveEditorScript.inDocument - 1
          /\ liveEditorScript'.created = liveEditorScript.created]_vars

\* what C34 says of one load sequence q: while its retry timer is pending its
\* failed element is gone and its promise pending, and it never makes more
\* attempts than retries allows
RetryProtocolOfSequence(q) ==
  /\ q.timer => q.el = "none" /\ q.promise = "pending" /\ q.attempt < q.retries
  /\ q.attempt >= 1 =>
       /\ q.attempt - 1 <= q.retries
       /\ q.attempt <= AttemptsAllowed(q.retries)
  /\ q.promise \in {"true", "false"} => ~q.timer /\ q.el # "loading"

\* C34: the retry protocol of one load sequence.  An element that failed is
\* removed from the document in the step of its error event, and the next
\* element of the sequence is injected only by the retry timer that step
\* scheduled, so the sequence has at most one element in the document at any
\* time; after the first failed attempt at most `retries` retries are made;
\* once the promise of the sequence has resolved the sequence injects no
\* element.  Until resetLiveEditorScript() is called there is one sequence and
\* so at most one injected element in the document; after a reset a new call
\* starts a second sequence beside the first, and the document holds at most
\* one element for each sequence started.
C34_RetryProtocol ==
  /\ [](liveEditorScript.inDocument <= liveEditorScript.seqs)
  /\ [](liveEditorScript.resets = 0 =>
          /\ liveEditorScript.inDocument <= 1
          /\ liveEditorScript.created <= AttemptsAllowed(liveEditorScript.retries)
          /\ liveEditorScript.timer =>
               liveEditorScript.inDocument = 0
                 /\ liveEditorScript.failed = liveEditorScript.attempt)
  /\ [](/\ RetryProtocolOfSequence(SeqOf(liveEditorScript))
        /\ \A i \in 1..Len(liveEditorScript.orphans) :
             RetryProtocolOfSequence(liveEditorScript.orphans[i]))
  /\ [](last.op \in {"onload", "onerror", "retry"} => RetryProtocolOfSequence(last.ev[1]))
  /\ [][/\ ScriptOnerror =>
             /\ liveEditorScript'.inDocument = liveEditorScript.inDocument - 1
             /\ liveEditorScript'.created = liveEditorScript.created
             /\ last'.ev[1].el = "none"
        /\ liveEditorScript'.created # liveEditorScript.created =>
             /\ liveEditorScript'.created = liveEditorScript.created + 1
             /\ liveEditorScript'.inDocument = liveEditorScript.inDocument + 1
             /\ \/ /\ liveEditorScript.promise = "null"
                   /\ CallsLoadScript
                   /\ liveEditorScript'.attempt = 1
                \/ /\ RetryTimer
                   /\ last'.ev[1].el = "loading"
                   /\ last'.ev[1].promise = "pending"
                   /\ last'.n >= 2
        /\ liveEditorScript.promise \in {"true", "false"} /\ liveEditorScript.orphans = <<>> =>
             /\ liveEditorScript'.created = liveEditorScript.created
             /\ liveEditorScript'.inDocument = liveEditorScript.inDocument
             /\ ~liveEditorScript'.timer]_vars

C34_Witness ==
  /\ last.op = "retry"
  /\ last.n = 3
  /\ last.arg = "orphan"
  /\ liveEditorScript.orphans = <<[promise |-> "pending", retries |-> 3, attempt |-> 3,
                                   el |-> "loading", timer |-> FALSE]>>
  /\ liveEditorScript.el = "loading"
  /\ liveEditorScript.attempt = 2
  /\ liveEditorScript.failed = 3
  /\ liveEditorScript.created = 5
  /\ liveEditorScript.inDocument = 2
  /\ liveEditorScript.promise = "pending"

\* C35: when every injected script element eventually fires load or error and
\* every scheduled retry timer eventually fires, every promise of
\* loadLiveEditorScript, once created, eventually resolves (true or false),
\* for every retries value: the promise in the slot, unless
\* resetLiveEditorScript() empties the slot first, and then the promise taken
\* out of the slot all the same, so that in the end every promise created
\* has resolved.
C35_ScriptLoadTerminates ==
  /\ (liveEditorScript.promise = "pending") ~>
       (liveEditorScript.promise \in {"true", "false"} \/ last.op = "resetLiveEditorScript")
  /\ (liveEditorScript.settles < liveEditorScript.pid) ~>
       (liveEditorScript.settles = liveEditorScript.pid /\ liveEditorScript.orphans = <<>>)

C35_Witness ==
  /\ last.op = "onerror"
  /\ last.n = 3
  /\ last.arg = "orphan"
  /\ last.ev[1].promise = "false"
  /\ liveEditorScript.failed = 3
  /\ liveEditorScript.created = 3
  /\ liveEditorScript.inDocument = 0
  /\ liveEditorScript.promise = "null"
  /\ liveEditorScript.settles = 1
  /\ liveEditorScript.pid = 1
  /\ liveEditorScript.orphans = <<>>

\* the steps of the script load that follow the call that started it, and
\* the reset of its slot
ScriptEvent == ScriptOnload \/ ScriptOnerror \/ RetryTimer \/ ResetScriptCall

\* the tracking operations of C36
TrackingCall ==
  \/ Attach("T1", "H1")
  \/ \E v \in CallValues, k \in CallKeys : Translate("H1", v, k)
  \/ TrackMessages("T1", TreeAB, "en", 2)
  \/ PreloadMessages("T1", "H1", 2)
  \/ Refresh

\* C36: the script load does not interfere with tracking.  Whatever the load
\* does (an element loads, fails, a retry is injected, the promise resolves
\* true or false or stays pending) leaves the index, the current-language
\* slot, the refresh function, the trackers and the instances with their
\* wrappers as they are; the tracking operations leave the load as it is, and
\* in every state of the load the tracker stays live, with its index, its
\* refresh function and its wrapper in place; so the index, the slot and the
\* values returned are those of the tracking operations alone.
C36_ScriptLoadDoesNotInterfere ==
  /\ [][ScriptEvent =>
          UNCHANGED <<memoryMap, curLang, refreshFn, trackers, hosts, hist, now>>]_vars
  /\ [][TrackingCall => liveEditorScript' = liveEditorScript]_vars
  /\ [](trackers["T1"].made =>
          /\ trackers["T1"].live
          /\ HasMap(memoryMap)
          /\ refreshFn = "T1")
  /\ [](trackers["T1"].attached => InChain("T1", "H1") /\ curLang = "en")

C36_Witness ==
  /\ last.op = "translate"
  /\ last.ret = Str("HELLO JOHN!")
  /\ liveEditorScript.promise = "false"
  /\ liveEditorScript.failed = 2
  /\ "Hello John!" \in ValuesOf(memoryMap)
  /\ curLang = "en"

\* C37: a load in flight is not cancelled and not fenced by refresh.  The
\* refresh callback leaves the requests in flight as they are; when a
\* loadLanguage(L) request (an explicit call or a load of preloadLanguages)
\* that was pending during the refresh gets its response right after it and
\* resumes, the loaded tree is set as the host's messages for L and tracked as
\* in any other load:
\* the index, empty since the refresh, holds the non-empty leaf strings of the
\* tree again (unless the size bound removed them) although no translation
\* call ran after the refresh.
C37_RefreshDoesNotFenceLoads ==
  /\ [][Refresh => pending' = pending /\ loader' = loader /\ hosts' = hosts]_vars
  /\ [][\A i \in 1..MaxPending, tree \in CdnTrees :
          /\ last.op = "refresh"
          /\ Respond(i, TRUE, tree)
          /\ pending[i].caller \in {"loadLanguage", "preload"}
          => /\ memoryMap.entries = <<>>
             /\ Resuming(pending') # <<>>
             /\ pending'[Len(pending')].language = pending[i].language
             /\ pending'[Len(pending')].tree = tree
             /\ last'.after = "refresh"]_vars
  /\ [][\A l \in Locales, tree \in CdnTrees :
          /\ last.op = "refresh" \/ (last.op = "response" /\ last.after = "refresh")
          /\ LoadLanguageGets(l, tree)
          => /\ memoryMap.entries = <<>>
             /\ SetThenTracked(l, tree)
             /\ last'.after = "refresh"
             /\ trackers[i18n.tracker].live /\ HasMap(memoryMap) =>
                  /\ \A p \in TextLeaves(tree) : EntryOrSizeBound(p[2], p[1], l)
                  /\ ValuesOf(memoryMap') \subseteq TextsOf(tree)
                  /\ memoryMap'.entries # <<>>]_vars

C37_Witness ==
  /\ last.op = "loadLanguage"
  /\ last.after = "refresh"
  /\ last.out = "loaded"
  /\ last.arg = "fr"
  /\ hosts[i18n.host].msgs["fr"] = Messages(TreeFr)
  /\ ValuesOf(memoryMap) = {"Bonjour {name}!"}
  /\ EntryOf(memoryMap, "Bonjour {name}!").lang = "fr"
  /\ loader.fetched = 2

\* the step before issued a request for language l that is still in flight:
\* a loadTranslations or loadLanguage call, or createContentstorageI18n
\* starting the loads of preloadLanguages; no cache clear came in between
JustRequested(l) ==
  /\ \E i \in 1..Len(pending) : pending[i].language = l /\ pending[i].stage = "fetch"
  /\ \/ last.op \in {"loadTranslations", "loadLanguage"} /\ last.out = "requested" /\ last.arg = l
     \/ last.op = "createContentstorageI18n"

\* C38: the cache avoids redundant requests under overlap: a
\* loadTranslations(L) (called directly or by loadLanguage) that starts while
\* the request of an earlier call for L is still in flight, with no cache
\* clear in between, issues no second request.
C38_OneRequestUnderOverlap ==
  [][\A l \in Locales :
       /\ JustRequested(l)
       /\ LoadTranslationsCall(l) \/ (LoadLanguageCall(l) /\ i18n.hasLoader)
       => /\ loader'.fetched = loader.fetched
          /\ Len(SelectSeq(pending', LAMBDA r : r.stage = "fetch")) =
               Len(SelectSeq(pending, LAMBDA r : r.stage = "fetch"))]_vars

\* every property name of the tree, at every level, is non-empty and has no '.'
RECURSIVE PlainKeys(_)
PlainKeys(node) ==
  node.t = "obj" =>
    \A i \in 1..Len(node.c) :
      /\ node.c[i][1] # <<>>
      /\ "." \notin { node.c[i][1][j] : j \in 1..Len(node.c[i][1]) }
      /\ PlainKeys(node.c[i][2])

\* C39 as stated: for every message tree T, whatever its property names, and
\* every pair (p, s) of flattenTranslations(T), getNestedValue(T, p) is s.
C39_RoundTripAnyTree ==
  last.op = "roundTrip" =>
    \A i \in 1..Len(last.ev) : last.ev[i].v = Str(last.ev[i].s)

\* C39: for every message tree T whose property names are non-empty and
\* contain no '.', the pairs of flattenTranslations(T) are the string leaves
\* of T with their paths, and for every pair (p, s) getNestedValue(T, p) is s,
\* so that for non-empty s an intercepted call for key p recovers the template
\* s that trackMessages and preloadMessages track under p.
C39_RoundTripPlainKeys ==
  (last.op = "roundTrip" /\ PlainKeys(last.v)) =>
    /\ { <<last.ev[i].k, last.ev[i].s>> : i \in 1..Len(last.ev) } = StringLeaves(last.v)
    /\ \A i \in 1..Len(last.ev) :
         /\ last.ev[i].v = Str(last.ev[i].s)
         /\ last.ev[i].s # "" => last.ev[i].template = last.ev[i].s

C39_Witness ==
  /\ last.op = "roundTrip"
  /\ last.v = Obj(<< <<<<"a">>, Obj(<< <<<<"b">>, Str("Hi")>> >>)>>, <<<<"b">>, Str("Yo")>> >>)
  /\ Len(last.ev) = 2
  /\ last.ev[1].k = <<"a", ".", "b">>
  /\ last.ev[1].v = Str("Hi")
  /\ last.ev[1].template = "Hi"
  /\ last.ev[2].v = Str("Yo")

====
